---------------------------- MODULE Spec2Model ----------------------------
(***************************************************************************)
(* A model of the pixi_byte scripting engine: the bytecode compiler        *)
(* (src/src/compiler/mod.rs), the stack virtual machine                    *)
(* (src/src/vm/mod.rs), the environment chain (src/src/runtime/mod.rs),    *)
(* the object record (src/src/value/jsobject.rs) and the engine entry      *)
(* point (src/src/lib.rs).                                                 *)
(*                                                                         *)
(* Environments and object records are reference-shared in the program     *)
(* (Rc<RefCell<..>>); here they live in two heaps, envs and objs, and a    *)
(* reference is an index into its heap.  The recursion of VM::execute on   *)
(* itself is the sequence frames: its last element is the running          *)
(* activation, and each callee activation keeps the locals old_env and     *)
(* old_stack of the CallFunction arm that started it.                      *)
(*                                                                         *)
(* Indices into code and constants are 0-based as in the program; the      *)
(* TLA+ sequences holding them are 1-based, hence the "+ 1" at each use.   *)
(***************************************************************************)
EXTENDS Integers, Sequences, FiniteSets, TLC

(***************************************************************************)
(* Bounds of the model.                                                    *)
(***************************************************************************)
\* Number of inputs a host submits to one engine in a behaviour.
MaxEvals == 4

\* Number of add_constant calls a host makes on one chunk.
MaxCalls == 4

\* Number of object records a host creates.
MaxObjects == 2

\* Width of usize in bits (scaled down from 64).
UsizeBits == 3

\* Number of elements a host lets one JSArray grow to.
MaxLen == 3

\* Number of pieces a host joins into one source text.
MaxPieces == 3

(***************************************************************************)
(* The value model.                                                        *)
(***************************************************************************)
Undefined == [t |-> "Undefined"]

Null == [t |-> "Null"]

Boolean(b) == [t |-> "Boolean", b |-> b]

Number(n) == [t |-> "Number", n |-> n]

\* The one Number that is not an integer of the model: f64::NAN.
NaN == [t |-> "Number", nan |-> TRUE]

\* -0.0: a zero with the sign bit set.
NegZero == [t |-> "Number", n |-> 0, neg |-> TRUE]

String(s) == [t |-> "String", s |-> s]

Object(ref) == [t |-> "Object", ref |-> ref]

\* env = 0 is None (a function constant, not yet a closure).
Function(chunk, params, env) == [t |-> "Function", chunk |-> chunk, params |-> params, env |-> env]

is_nan(v) == v.t = "Number" /\ "nan" \in DOMAIN v

\* JSValue's derived PartialEq: structural, with f64's NaN unequal to itself.
JSValue_eq(a, b) == IF is_nan(a) \/ is_nan(b) THEN FALSE ELSE a = b

\* f64's Display on the integers of the model.
f64_to_string(n) == ToString(n)

\* A ToString that prints an object's address.
to_string_with_address(v) ==
    CASE v.t = "Undefined" -> "undefined"
      [] v.t = "Null" -> "null"
      [] v.t = "Boolean" -> (IF v.b THEN "true" ELSE "false")
      [] v.t = "Number" -> (IF is_nan(v) THEN "NaN" ELSE f64_to_string(v.n))
      [] v.t = "String" -> v.s
      [] v.t = "Object" -> "[object " \o ToString(v.ref) \o "]"
      [] v.t = "Function" -> "[function]"

to_string(v) ==
    CASE v.t = "Undefined" -> "undefined"
      [] v.t = "Null" -> "null"
      [] v.t = "Boolean" -> (IF v.b THEN "true" ELSE "false")
      [] v.t = "Number" -> (IF is_nan(v) THEN "NaN" ELSE f64_to_string(v.n))
      [] v.t = "String" -> v.s
      [] v.t = "Object" -> "[object Object]"
      [] v.t = "Function" -> "[function]"

\* str::trim on the strings of the model: the only strings with white space
\* at either end are the ones made of white space alone.
trim(s) == IF s \in {" ", "  ", "\t", "\n"} THEN "" ELSE s

\* str::parse::<f64> on the strings of the model: the decimal text of an
\* integer parses to it, anything else fails (NaN after unwrap_or).
parse_f64(s) ==
    IF \E n \in -64..64 : f64_to_string(n) = s
    THEN Number(CHOOSE n \in -64..64 : f64_to_string(n) = s)
    ELSE NaN

\* ToNumber; the result is a Number value (NaN included).
to_number(v) ==
    CASE v.t = "Undefined" -> NaN
      [] v.t = "Null" -> Number(0)
      [] v.t = "Boolean" -> (IF v.b THEN Number(1) ELSE Number(0))
      [] v.t = "Number" -> v
      [] v.t = "String" -> (IF trim(v.s) = "" THEN Number(0) ELSE parse_f64(trim(v.s)))
      [] v.t = "Object" -> NaN
      [] v.t = "Function" -> NaN

\* ToBoolean of an Object or a Function.
to_boolean_of_reference(v) == TRUE

\* ToBoolean.  The model's numbers are integers, 0 standing for +0 and -0.
to_boolean(v) ==
    CASE v.t \in {"Undefined", "Null"} -> FALSE
      [] v.t = "Boolean" -> v.b
      [] v.t = "Number" -> ~is_nan(v) /\ v.n # 0
      [] v.t = "String" -> v.s # ""
      [] v.t \in {"Object", "Function"} -> to_boolean_of_reference(v)

\* f64's == on two Numbers: NaN equals nothing, the two zeros are equal.
f64_eq(a, b) == ~is_nan(a) /\ ~is_nan(b) /\ a.n = b.n

\* A strict equality that compares Numbers bit by bit.
strict_equals_bitwise(a, b) ==
    CASE a.t = "Undefined" /\ b.t = "Undefined" -> TRUE
      [] a.t = "Null" /\ b.t = "Null" -> TRUE
      [] a.t = "Boolean" /\ b.t = "Boolean" -> a.b = b.b
      [] a.t = "Number" /\ b.t = "Number" -> a = b
      [] a.t = "String" /\ b.t = "String" -> a.s = b.s
      [] OTHER -> FALSE

\* JSValue::strict_equals: one arm per pair of like variants it names, and
\* the wildcard arm for every other pair.
strict_equals(a, b) ==
    CASE a.t = "Undefined" /\ b.t = "Undefined" -> TRUE
      [] a.t = "Null" /\ b.t = "Null" -> TRUE
      [] a.t = "Boolean" /\ b.t = "Boolean" -> a.b = b.b
      [] a.t = "Number" /\ b.t = "Number" ->
            (IF is_nan(a) \/ is_nan(b) THEN FALSE ELSE f64_eq(a, b))
      [] a.t = "String" /\ b.t = "String" -> a.s = b.s
      [] OTHER -> FALSE

\* An abstract equality that coerces only a Boolean on the left.
abstract_equals_left_only(a, b) ==
    IF a.t = b.t THEN strict_equals(a, b)
    ELSE CASE a.t = "Null" /\ b.t = "Undefined" -> TRUE
           [] a.t = "Undefined" /\ b.t = "Null" -> TRUE
           [] a.t = "Number" /\ b.t = "String" -> f64_eq(a, to_number(b))
           [] a.t = "String" /\ b.t = "Number" -> f64_eq(to_number(a), b)
           [] a.t = "Boolean" -> f64_eq(to_number(a), to_number(b))
           [] OTHER -> FALSE

\* JSValue::abstract_equals
RECURSIVE abstract_equals(_, _)
abstract_equals(a, b) ==
    IF a.t = b.t THEN strict_equals(a, b)
    ELSE CASE a.t = "Null" /\ b.t = "Undefined" -> TRUE
           [] a.t = "Undefined" /\ b.t = "Null" -> TRUE
           [] a.t = "Number" /\ b.t = "String" -> f64_eq(a, to_number(b))
           [] a.t = "String" /\ b.t = "Number" -> f64_eq(to_number(a), b)
           [] a.t = "Boolean" -> abstract_equals(to_number(a), b)
           [] b.t = "Boolean" -> abstract_equals(a, to_number(b))
           [] OTHER -> FALSE

\* f64 addition on the model's numbers.
f64_add(a, b) == IF is_nan(a) \/ is_nan(b) THEN NaN ELSE Number(a.n + b.n)

\* `x as usize` on an f64: NaN and negatives saturate to 0.
as_usize(a) == IF is_nan(a) THEN 0 ELSE IF a.n < 0 THEN 0 ELSE a.n

(***************************************************************************)
(* Finite maps (FxHashMap<String, _>).                                     *)
(***************************************************************************)
EmptyMap == [x \in {} |-> Undefined]

Insert(m, k, v) == [x \in DOMAIN m \cup {k} |-> IF x = k THEN v ELSE m[x]]


(***************************************************************************)
(* The scanner (src/src/lexer/scanner.rs).  A source is the Vec<char> of   *)
(* Lexer::new, a character a string of length one; a position counts the   *)
(* characters before it.  A token is its kind and, for a literal or an     *)
(* identifier, its text; line, column and span are left out.               *)
(***************************************************************************)
\* Option<char>::None
None == ""

Digits == {"0", "1", "2", "3", "4", "5", "6", "7", "8", "9"}

Whitespace == {" ", "\t", "\n", "\r"}

\* The letters of the model, with '_' and '$': what starts an identifier.
Letters == {"a", "e", "_", "$"}

\* Every character of the model's sources.
Chars ==
    Digits \cup Whitespace \cup Letters \cup
    {".", "/", "*", "\"", "'", "\\", "(", ")", "{", "}", "[", "]", ";", ",", "~", "?", ":"}

\* The arms of next_token that make a token of one character whatever follows.
OneChar ==
    [ch \in {"(", ")", "{", "}", "[", "]", ";", ",", "~", "?", ":"} |->
        CASE ch = "(" -> "LeftParen"
          [] ch = ")" -> "RightParen"
          [] ch = "{" -> "LeftBrace"
          [] ch = "}" -> "RightBrace"
          [] ch = "[" -> "LeftBracket"
          [] ch = "]" -> "RightBracket"
          [] ch = ";" -> "Semicolon"
          [] ch = "," -> "Comma"
          [] ch = "~" -> "BitNot"
          [] ch = "?" -> "Question"
          [] ch = ":" -> "Colon"]

\* self.peek() and self.peek_ahead(n) at a position.
peek(source, position) ==
    IF position >= Len(source) THEN None ELSE source[position + 1]

peek_ahead(source, position, n) ==
    IF position + n >= Len(source) THEN None ELSE source[position + n + 1]

\* The position a `while let Some(ch) = self.peek()` loop stops at when it
\* advances over the characters of a set.
RECURSIVE skip_while(_, _, _)
skip_while(source, position, set) ==
    IF peek(source, position) \in set
    THEN skip_while(source, position + 1, set)
    ELSE position

skip_whitespace(source, position) == skip_while(source, position, Whitespace)

\* source[start..end].iter().collect::<String>()
RECURSIVE collect(_, _, _)
collect(source, start, end) ==
    IF start >= end THEN "" ELSE source[start + 1] \o collect(source, start + 1, end)

\* What a scan returns: a token and the position after it, an Err, or a panic.
Scanned(kind, text, position) ==
    [r |-> "ok", kind |-> kind, text |-> text, position |-> position]

ScanErr(category) == [r |-> "err", kind |-> category, text |-> "", position |-> 0]

ScanPanic == [r |-> "panic", kind |-> "", text |-> "", position |-> 0]

\* str::parse::<f64> succeeds on the texts the scanner collects unless the
\* exponent has no digit.
parses(text_end) == text_end \in Digits

\* scan_number, entered after the advance over its first digit at start.
scan_number(source, start) ==
    LET integral == skip_while(source, start + 1, Digits)
        fraction ==
            IF peek(source, integral) = "." /\ peek_ahead(source, integral, 1) \in Digits
            THEN skip_while(source, integral + 1, Digits)
            ELSE integral
        sign ==
            IF peek(source, fraction + 1) \in {"+", "-"} THEN fraction + 2 ELSE fraction + 1
        exponent ==
            IF peek(source, fraction) \in {"e", "E"}
            THEN skip_while(source, sign, Digits)
            ELSE fraction
    IN  IF parses(source[exponent])
        THEN Scanned("Number", collect(source, start, exponent), exponent)
        ELSE ScanErr("SyntaxError")

\* scan_number_starting_with_dot, entered after the advance over the '.' at
\* start; next_token has seen a digit after it.
scan_number_starting_with_dot(source, start) ==
    LET end == skip_while(source, start + 1, Digits)
    IN  Scanned("Number", collect(source, start, end), end)

\* The match on the character after a backslash.
escaped_char(escaped) ==
    CASE escaped = "n" -> "\n"
      [] escaped = "r" -> "\r"
      [] escaped = "t" -> "\t"
      [] OTHER -> escaped

\* scan_string's loop from a position, value being the text collected so far.
RECURSIVE scan_string(_, _, _, _)
scan_string(source, position, quote, value) ==
    LET ch == peek(source, position)
    IN  CASE ch = None -> Scanned("String", value, position)
          [] ch = quote -> Scanned("String", value, position + 1)
          [] ch = "\\" ->
                IF peek(source, position + 1) # None
                THEN scan_string(source, position + 2, quote,
                                 value \o escaped_char(peek(source, position + 1)))
                ELSE scan_string(source, position + 1, quote, value)
          [] ch = "\n" -> ScanErr("SyntaxError")
          [] OTHER -> scan_string(source, position + 1, quote, value \o ch)

\* scan_identifier, entered after the advance over its first character at
\* start.  No keyword is spelled with the model's letters.
scan_identifier(source, start) ==
    LET end == skip_while(source, start + 1, Letters \cup Digits)
    IN  Scanned("Identifier", collect(source, start, end), end)

\* skip_line_comment: the position of the newline or of the end.
skip_line_comment(source, position) == skip_while(source, position, Chars \ {"\n"})

\* skip_block_comment: the position after the closing */, or -1 for the Err.
RECURSIVE skip_block_comment(_, _)
skip_block_comment(source, position) ==
    CASE peek(source, position) = None -> -1
      [] peek(source, position) = "*" /\ peek_ahead(source, position, 1) = "/" -> position + 2
      [] OTHER -> skip_block_comment(source, position + 1)

\* next_token at a position.  Its first step is advance(), which indexes
\* the source without a check: at the end of the input the thread panics.
RECURSIVE next_token(_, _)
next_token(source, position) ==
    IF position >= Len(source)
    THEN ScanPanic
    ELSE LET ch == source[position + 1]
             next == position + 1
         IN  CASE ch \in DOMAIN OneChar -> Scanned(OneChar[ch], "", next)
               [] ch = "." ->
                    IF peek(source, next) = "." /\ peek_ahead(source, next, 1) = "."
                    THEN Scanned("DotDotDot", "", next + 2)
                    ELSE IF peek(source, next) \in Digits
                    THEN scan_number_starting_with_dot(source, position)
                    ELSE Scanned("Dot", "", next)
               [] ch = "*" ->
                    IF peek(source, next) = "*" THEN Scanned("Power", "", next + 1)
                    ELSE IF peek(source, next) = "=" THEN Scanned("StarEq", "", next + 1)
                    ELSE Scanned("Star", "", next)
               [] ch = "/" ->
                    IF peek(source, next) = "/"
                    THEN next_token(source, skip_line_comment(source, next + 1))
                    ELSE IF peek(source, next) = "*"
                    THEN IF skip_block_comment(source, next + 1) < 0
                         THEN ScanErr("SyntaxError")
                         ELSE next_token(source, skip_block_comment(source, next + 1))
                    ELSE IF peek(source, next) = "=" THEN Scanned("SlashEq", "", next + 1)
                    ELSE Scanned("Slash", "", next)
               [] ch \in {"\"", "'"} -> scan_string(source, next, ch, "")
               [] ch \in Digits -> scan_number(source, position)
               [] ch \in Letters -> scan_identifier(source, position)
               [] OTHER -> Scanned("Unknown", ch, next)

\* tokenize's loop from a position, tokens being those pushed so far.
RECURSIVE tokenize_from(_, _, _)
tokenize_from(source, position, tokens) ==
    LET at == skip_whitespace(source, position)
        token == next_token(source, at)
    IN  IF at >= Len(source)
        THEN [r |-> "ok", tokens |-> Append(tokens, [kind |-> "Eof", text |-> ""])]
        ELSE IF token.r # "ok"
        THEN [r |-> token.r, category |-> token.kind]
        ELSE tokenize_from(source, token.position,
                           Append(tokens, [kind |-> token.kind, text |-> token.text]))

\* Lexer::new(source).tokenize()
tokenize(source) == tokenize_from(source, 0, <<>>)


(***************************************************************************)
(* The abstract syntax tree (src/src/parser/mod.rs).  An Option<T> is a    *)
(* sequence of length 0 or 1.                                              *)
(***************************************************************************)
Literal(value) == [k |-> "Literal", value |-> value]

Identifier(name) == [k |-> "Identifier", name |-> name]

Binary(op, left, right) == [k |-> "Binary", op |-> op, left |-> left, right |-> right]

Unary(op, arg) == [k |-> "Unary", op |-> op, arg |-> arg]

Assignment(left, right) == [k |-> "Assignment", left |-> left, right |-> right]

ArrayLiteral(elements) == [k |-> "ArrayLiteral", elements |-> elements]

\* properties: a sequence of <<key, value expression>> pairs.
ObjectLiteral(properties) == [k |-> "ObjectLiteral", properties |-> properties]

MemberAccess(object, property, computed) ==
    [k |-> "MemberAccess", object |-> object, property |-> property, computed |-> computed]

Call(callee, args) == [k |-> "Call", callee |-> callee, args |-> args]

FunctionExpression(params, body) == [k |-> "Function", params |-> params, body |-> body]

ExpressionStatement(expr) == [k |-> "Expression", expr |-> expr]

VariableDeclaration(name, init) == [k |-> "VariableDeclaration", name |-> name, init |-> init]

\* A variable declaration with the VarKind the parser records in it.
KindDeclaration(kind, name, init) ==
    [k |-> "VariableDeclaration", kind |-> kind, name |-> name, init |-> init]

ReturnStatement(arg) == [k |-> "Return", arg |-> arg]

FunctionDeclaration(name, params, body) ==
    [k |-> "FunctionDeclaration", name |-> name, params |-> params, body |-> body]

(***************************************************************************)
(* The bytecode chunk and the compiler (src/src/compiler/mod.rs).  The     *)
(* compiler's chunk under construction carries the error of the first      *)
(* failed step in err ("" while there is none): every later step is then   *)
(* skipped, as `?` returns from compile_statement and compile_expression.  *)
(***************************************************************************)
BytecodeChunk_new == [code |-> <<>>, constants |-> <<>>, err |-> ""]

\* An instruction without operand, with an index or count (usize) operand,
\* with a name (String) operand.
Opcode(op) == [op |-> op]

OpcodeIdx(op, idx) == [op |-> op, idx |-> idx]

OpcodeName(op, name) == [op |-> op, name |-> name]

\* An add_constant that never looks for an equal constant.
constant_index_appended(chunk, value) == Len(chunk.constants)

\* The index add_constant returns for value: that of the first equal
\* constant, or the pool's length (the index the new entry gets).
constant_index(chunk, value) ==
    IF \E i \in 1..Len(chunk.constants) : JSValue_eq(chunk.constants[i], value)
    THEN (CHOOSE i \in 1..Len(chunk.constants) :
              /\ JSValue_eq(chunk.constants[i], value)
              /\ \A j \in 1..(i - 1) : ~JSValue_eq(chunk.constants[j], value)) - 1
    ELSE Len(chunk.constants)

\* The chunk after add_constant(value).
add_constant(chunk, value) ==
    IF constant_index(chunk, value) < Len(chunk.constants)
    THEN chunk
    ELSE [chunk EXCEPT !.constants = Append(@, value)]

emit(chunk, opcode) == [chunk EXCEPT !.code = Append(@, opcode)]

\* add_constant followed by emit(LoadConst(idx)).
emit_constant(chunk, value) ==
    emit(add_constant(chunk, value), OpcodeIdx("LoadConst", constant_index(chunk, value)))

\* The chunk a finished compile hands out (Ok(self.chunk.clone())).
finished(chunk) == [code |-> chunk.code, constants |-> chunk.constants]

RECURSIVE compile_expression(_, _)
RECURSIVE compile_statement(_, _, _)
RECURSIVE compile_body(_, _, _)
RECURSIVE compile_args(_, _, _)
RECURSIVE compile_elements(_, _, _)
RECURSIVE compile_properties(_, _, _)

\* Compiler::compile: the statements from the i-th (1-based) on.
compile_body(chunk, body, i) ==
    IF i > Len(body) \/ chunk.err # ""
    THEN chunk
    ELSE compile_body(compile_statement(chunk, body[i], i = Len(body)), body, i + 1)

\* Compiler::new().compile(Program { body }): a fresh compiler's result.
compile(body) == compile_body(BytecodeChunk_new, body, 1)

\* The arguments of a call, in source order.
compile_args(chunk, args, i) ==
    IF i > Len(args) \/ chunk.err # ""
    THEN chunk
    ELSE compile_args(compile_expression(chunk, args[i]), args, i + 1)

\* The elements of an array literal: element, index constant, ArrayPush.
compile_elements(chunk, elements, i) ==
    IF i > Len(elements) \/ chunk.err # ""
    THEN chunk
    ELSE LET c1 == compile_expression(chunk, elements[i])
         IN  IF c1.err # ""
             THEN c1
             ELSE compile_elements(
                      emit(emit_constant(c1, Number(i - 1)), Opcode("ArrayPush")),
                      elements, i + 1)

\* The properties of an object literal: value, key constant, ObjectSetProperty.
compile_properties(chunk, properties, i) ==
    IF i > Len(properties) \/ chunk.err # ""
    THEN chunk
    ELSE LET c1 == compile_expression(chunk, properties[i][2])
         IN  IF c1.err # ""
             THEN c1
             ELSE compile_properties(
                      emit(emit_constant(c1, String(properties[i][1])),
                           Opcode("ObjectSetProperty")),
                      properties, i + 1)

\* A compile_function that takes the constant's index from the function's
\* own chunk.
compile_function_nested_index(chunk, params, body) ==
    LET function_chunk == compile(body)
    IN  IF function_chunk.err # ""
        THEN [chunk EXCEPT !.err = function_chunk.err]
        ELSE LET func_value == Function(finished(function_chunk), params, 0)
             IN  emit(add_constant(chunk, func_value),
                      OpcodeIdx("CreateFunction", constant_index(function_chunk, func_value)))

\* The function constant of a declaration or function expression and the
\* CreateFunction that instantiates it.
compile_function(chunk, params, body) ==
    LET function_chunk == compile(body)
    IN  IF function_chunk.err # ""
        THEN [chunk EXCEPT !.err = function_chunk.err]
        ELSE LET func_value == Function(finished(function_chunk), params, 0)
             IN  emit(add_constant(chunk, func_value),
                      OpcodeIdx("CreateFunction", constant_index(chunk, func_value)))

\* A Binary arm that lets an And or Or jump over its right operand.
compile_binary_skipping(chunk, expression) ==
    LET c1 == compile_expression(chunk, expression.left)
        c2 == compile_expression(c1, expression.right)
    IN  IF c2.err # "" THEN c2
        ELSE IF expression.op \in {"And", "Or"}
        THEN [c2 EXCEPT !.code = SubSeq(c2.code, 1, Len(c1.code))
                                     \o <<OpcodeIdx("JumpIfFalse", Len(c2.code) + 1)>>
                                     \o SubSeq(c2.code, Len(c1.code) + 1, Len(c2.code))]
        ELSE emit(c2, Opcode(expression.op))

\* The Binary arm of compile_expression: left, right, then the operator's opcode.
compile_binary(chunk, expression) ==
    LET c2 == compile_expression(compile_expression(chunk, expression.left),
                                 expression.right)
    IN  IF c2.err # "" THEN c2 ELSE emit(c2, Opcode(expression.op))

compile_statement(chunk, statement, is_last) ==
    IF chunk.err # "" THEN chunk
    ELSE CASE statement.k = "Expression" ->
                LET c1 == compile_expression(chunk, statement.expr)
                IN  IF c1.err # "" \/ is_last THEN c1 ELSE emit(c1, Opcode("Pop"))
           [] statement.k = "VariableDeclaration" ->
                LET c1 == IF Len(statement.init) = 1
                          THEN compile_expression(chunk, statement.init[1])
                          ELSE emit_constant(chunk, Undefined)
                    c2 == emit(c1, OpcodeName("StoreVar", statement.name))
                IN  IF c1.err # "" THEN c1
                    ELSE IF is_last THEN emit_constant(c2, Undefined) ELSE c2
           [] statement.k = "Return" ->
                LET c1 == IF Len(statement.arg) = 1
                          THEN compile_expression(chunk, statement.arg[1])
                          ELSE emit_constant(chunk, Undefined)
                IN  IF c1.err # "" THEN c1 ELSE emit(c1, Opcode("Return"))
           [] statement.k = "FunctionDeclaration" ->
                LET c1 == compile_function(chunk, statement.params, statement.body)
                IN  IF c1.err # "" THEN c1 ELSE emit(c1, OpcodeName("StoreVar", statement.name))

compile_expression(chunk, expression) ==
    IF chunk.err # "" THEN chunk
    ELSE CASE expression.k = "Literal" -> emit_constant(chunk, expression.value)
           [] expression.k = "Identifier" -> emit(chunk, OpcodeName("LoadVar", expression.name))
           [] expression.k = "Binary" -> compile_binary(chunk, expression)
           [] expression.k = "Unary" ->
                LET c1 == compile_expression(chunk, expression.arg)
                IN  IF c1.err # "" THEN c1
                    ELSE CASE expression.op = "Plus" -> c1
                           [] expression.op = "Minus" -> emit(c1, Opcode("Neg"))
                           [] expression.op = "Delete" ->
                                [c1 EXCEPT !.err = "InternalError"]
                           [] OTHER -> emit(c1, Opcode(expression.op))
           [] expression.k = "Assignment" ->
                CASE expression.left.k = "Identifier" ->
                       LET c1 == compile_expression(chunk, expression.right)
                       IN  IF c1.err # "" THEN c1
                           ELSE emit(emit(c1, OpcodeName("StoreVar", expression.left.name)),
                                     OpcodeName("LoadVar", expression.left.name))
                  [] expression.left.k = "MemberAccess" ->
                       LET c3 == compile_expression(
                                     compile_expression(
                                         compile_expression(chunk, expression.left.object),
                                         expression.left.property),
                                     expression.right)
                       IN  IF c3.err # "" THEN c3 ELSE emit(c3, Opcode("SetProperty"))
                  [] OTHER -> [chunk EXCEPT !.err = "SyntaxError"]
           [] expression.k = "ArrayLiteral" ->
                compile_elements(emit(chunk, OpcodeIdx("NewArray", 0)), expression.elements, 1)
           [] expression.k = "ObjectLiteral" ->
                compile_properties(emit(chunk, Opcode("NewObject")),
                                   expression.properties, 1)
           [] expression.k = "MemberAccess" ->
                LET c2 == compile_expression(compile_expression(chunk, expression.object),
                                             expression.property)
                IN  IF c2.err # "" THEN c2 ELSE emit(c2, Opcode("GetProperty"))
           [] expression.k = "Function" ->
                compile_function(chunk, expression.params, expression.body)
           [] expression.k = "Call" ->
                LET c2 == compile_args(compile_expression(chunk, expression.callee),
                                       expression.args, 1)
                IN  IF c2.err # "" THEN c2
                    ELSE emit(c2, OpcodeIdx("CallFunction", Len(expression.args)))


(***************************************************************************)
(* The environment chain (src/src/runtime/mod.rs).  E is the heap of       *)
(* environments, e an index into it; outer = 0 is None.                    *)
(***************************************************************************)
Environment_new == [bindings |-> EmptyMap, outer |-> 0]

\* A with_outer that leaves the new environment without an outer one.
Environment_with_outer_dropped(outer) == [bindings |-> EmptyMap, outer |-> 0]

Environment_with_outer(outer) == [bindings |-> EmptyMap, outer |-> outer]

\* Environment::define: the heap after installing name in e's own bindings.
Environment_define(E, e, name, value) ==
    [E EXCEPT ![e].bindings = Insert(@, name, value)]

\* An Environment::set that looks at e's own bindings only.
Environment_set_own(E, e, name, value) ==
    IF name \in DOMAIN E[e].bindings
    THEN [ok |-> TRUE, envs |-> [E EXCEPT ![e].bindings = Insert(@, name, value)]]
    ELSE [ok |-> FALSE, envs |-> E]

RECURSIVE Environment_set(_, _, _, _)
\* Environment::set: [ok |-> the bool it returns, envs |-> the heap after].
Environment_set(E, e, name, value) ==
    IF name \in DOMAIN E[e].bindings
    THEN [ok |-> TRUE, envs |-> [E EXCEPT ![e].bindings = Insert(@, name, value)]]
    ELSE IF E[e].outer # 0
         THEN Environment_set(E, E[e].outer, name, value)
         ELSE [ok |-> FALSE, envs |-> E]

RECURSIVE Environment_get(_, _, _)
\* Environment::get: an Option, as a sequence of length 0 or 1.
Environment_get(E, e, name) ==
    IF name \in DOMAIN E[e].bindings
    THEN <<E[e].bindings[name]>>
    ELSE IF E[e].outer # 0
         THEN Environment_get(E, E[e].outer, name)
         ELSE <<>>

(***************************************************************************)
(* The object record (src/src/value/jsobject.rs, jsarray.rs).  O is the    *)
(* heap of object records, r an index into it; prototype = 0 is None.      *)
(***************************************************************************)
Property_data(value) ==
    [value |-> value, enumerable |-> TRUE, writable |-> TRUE, configurable |-> TRUE]

JSObject_new == [properties |-> EmptyMap, prototype |-> 0]

RECURSIVE JSObject_get(_, _, _)
JSObject_get(O, r, key) ==
    IF key \in DOMAIN O[r].properties
    THEN O[r].properties[key].value
    ELSE IF O[r].prototype # 0
         THEN JSObject_get(O, O[r].prototype, key)
         ELSE Undefined

Property_read_only(value) ==
    [value |-> value, enumerable |-> TRUE, writable |-> FALSE, configurable |-> FALSE]

\* A descriptor a host builds from the public fields: writable, not configurable.
Property_sealed(value) ==
    [value |-> value, enumerable |-> TRUE, writable |-> TRUE, configurable |-> FALSE]

JSObject_with_prototype(prototype) == [properties |-> EmptyMap, prototype |-> prototype]

has_own_property(obj, key) == key \in DOMAIN obj.properties

\* JSObject::define_property on one record.
define_property(obj, key, property) == [obj EXCEPT !.properties = Insert(@, key, property)]

\* A set that overwrites whatever the descriptor says.
JSObject_set_unchecked(obj, key, value) ==
    IF key \in DOMAIN obj.properties
    THEN [ok |-> TRUE, obj |-> [obj EXCEPT !.properties[key].value = value]]
    ELSE [ok |-> TRUE,
          obj |-> [obj EXCEPT !.properties = Insert(@, key, Property_data(value))]]

\* A delete that removes whatever the descriptor says.
JSObject_delete_unchecked(obj, key) ==
    [ok |-> key \in DOMAIN obj.properties,
     obj |-> [obj EXCEPT !.properties = [x \in DOMAIN @ \ {key} |-> @[x]]]]

\* JSObject::delete on one record: [ok |-> the bool it returns, obj |-> the record after].
JSObject_delete(obj, key) ==
    IF key \in DOMAIN obj.properties /\ ~obj.properties[key].configurable
    THEN [ok |-> FALSE, obj |-> obj]
    ELSE [ok |-> key \in DOMAIN obj.properties,
          obj |-> [obj EXCEPT !.properties = [x \in DOMAIN @ \ {key} |-> @[x]]]]

RECURSIVE get_returns(_, _, _, _)
\* Whether the recursion of JSObject::get on key from r ends: it does not when
\* the walk is still going after more steps than there are objects.
get_returns(O, r, key, fuel) ==
    IF key \in DOMAIN O[r].properties \/ O[r].prototype = 0
    THEN TRUE
    ELSE IF fuel = 0 THEN FALSE ELSE get_returns(O, O[r].prototype, key, fuel - 1)

\* JSObject::set on one record: [ok |-> the bool it returns, obj |-> the record after].
JSObject_set(obj, key, value) ==
    IF key \in DOMAIN obj.properties
    THEN IF ~obj.properties[key].writable
         THEN [ok |-> FALSE, obj |-> obj]
         ELSE [ok |-> TRUE, obj |-> [obj EXCEPT !.properties[key].value = value]]
    ELSE [ok |-> TRUE,
          obj |-> [obj EXCEPT !.properties = Insert(@, key, Property_data(value))]]

\* A write that lands in a copy of the record: the shared one stays as it was.
set_property_on_clone(O, r, key, value) == O

\* The heap after obj_ref.borrow_mut().set(key, value).
set_property(O, r, key, value) == [O EXCEPT ![r] = JSObject_set(@, key, value).obj]

RECURSIVE set_elements(_, _, _)
\* JSArray::to_object's loop: element i becomes property i.to_string().
set_elements(obj, elements, i) ==
    IF i > Len(elements)
    THEN obj
    ELSE set_elements(JSObject_set(obj, f64_to_string(i - 1), elements[i]).obj, elements, i + 1)

\* The record JSArray::from_vec(elements).to_object() allocates.
JSArray_to_object(elements) ==
    JSObject_set(set_elements(JSObject_new, elements, 1), "length", Number(Len(elements))).obj

\* usize::MAX
usize_MAX == 2 ^ UsizeBits - 1

\* JSArray::new(): the elements of an empty array.
JSArray_new == <<>>

\* arr.length()
JSArray_length(elements) == Len(elements)

\* arr.get(index)
JSArray_get(elements, index) ==
    IF index < Len(elements) THEN elements[index + 1] ELSE Undefined

\* Vec::resize(new_len, value): truncates or pads at the end.
resize(elements, new_len, value) ==
    IF new_len <= Len(elements)
    THEN SubSeq(elements, 1, new_len)
    ELSE elements \o [i \in 1..(new_len - Len(elements)) |-> value]

\* arr.set(index, value).  index + 1 is computed in usize: at usize::MAX a
\* build with overflow checks panics there, a build without them wraps to 0,
\* resizes to no elements and panics at the indexing that follows.
JSArray_set(elements, index, value, overflow_checks) ==
    LET padded ==
            IF index >= Len(elements)
            THEN resize(elements, (index + 1) % (usize_MAX + 1), Undefined)
            ELSE elements
    IN  IF index >= Len(elements) /\ index + 1 > usize_MAX /\ overflow_checks
        THEN [panic |-> TRUE, elements |-> elements]
        ELSE IF index >= Len(padded)
        THEN [panic |-> TRUE, elements |-> padded]
        ELSE [panic |-> FALSE, elements |-> [padded EXCEPT ![index + 1] = value]]

\* arr.push(value)
JSArray_push(elements, value) == Append(elements, value)

\* arr.pop(): the value returned and the elements left.
JSArray_pop(elements) ==
    IF Len(elements) = 0
    THEN [ret |-> Undefined, elements |-> elements]
    ELSE [ret |-> elements[Len(elements)],
          elements |-> SubSeq(elements, 1, Len(elements) - 1)]

\* arr.unshift(value): Vec::insert(0, value).
JSArray_unshift(elements, value) == <<value>> \o elements

\* arr.shift(): Vec::remove(0) unless the array is empty.
JSArray_shift(elements) ==
    IF Len(elements) = 0
    THEN [ret |-> Undefined, elements |-> elements]
    ELSE [ret |-> elements[1], elements |-> SubSeq(elements, 2, Len(elements))]


(***************************************************************************)
(* The inputs a host submits.  A session is the pool of inputs of one      *)
(* engine's life: a behaviour picks a session and then submits up to       *)
(* MaxEvals of its inputs, in any order and with repetition.  An input is  *)
(* a program for JSEngine::eval (given as the AST the front end hands to   *)
(* the compiler) or a hand-built chunk for VM::execute.                    *)
(***************************************************************************)
Source(body) == [kind |-> "source", body |-> body]

\* A source text, as its characters, that JSEngine::eval is to scan.
Text(source) == [kind |-> "text", source |-> source]

Chunk(code, constants) == [code |-> code, constants |-> constants]

RawChunk(chunk) == [kind |-> "chunk", chunk |-> chunk]

Num(n) == Literal(Number(n))

Add(left, right) == Binary("Add", left, right)

\* function counter() { var c = 0; return function() { c = c + 1; return c; }; }
CounterDecl ==
    FunctionDeclaration("counter", <<>>,
        << VariableDeclaration("c", <<Num(0)>>),
           ReturnStatement(<<FunctionExpression(<<>>,
               << ExpressionStatement(Assignment(Identifier("c"), Add(Identifier("c"), Num(1)))),
                  ReturnStatement(<<Identifier("c")>>) >>)>>) >>)

\* function makeAdder(x) { return function(y) { return x + y; }; }
MakeAdderDecl ==
    FunctionDeclaration("makeAdder", <<"x">>,
        << ReturnStatement(<<FunctionExpression(<<"y">>,
               << ReturnStatement(<<Add(Identifier("x"), Identifier("y"))>>) >>)>>) >>)

CallStatement(name, args) == ExpressionStatement(Call(Identifier(name), args))

\* Session 1: the counter closure.
CounterSession ==
    << \* function counter() {..}  var inc = counter();
       Source(<< CounterDecl,
                 VariableDeclaration("inc", <<Call(Identifier("counter"), <<>>)>>) >>),
       \* inc()
       Source(<< CallStatement("inc", <<>>) >>),
       \* inc(); inc()
       Source(<< CallStatement("inc", <<>>), CallStatement("inc", <<>>) >>),
       \* var c = 100
       Source(<< VariableDeclaration("c", <<Num(100)>>) >>) >>

\* Session 2: two closures over one function constant.
AdderSession ==
    << \* function makeAdder(x) {..}  var add5 = makeAdder(5);
       Source(<< MakeAdderDecl,
                 VariableDeclaration("add5", <<Call(Identifier("makeAdder"), <<Num(5)>>)>>) >>),
       \* var add10 = makeAdder(10)
       Source(<< VariableDeclaration("add10", <<Call(Identifier("makeAdder"), <<Num(10)>>)>>) >>),
       \* add5(3)
       Source(<< CallStatement("add5", <<Num(3)>>) >>),
       \* add10(3)
       Source(<< CallStatement("add10", <<Num(3)>>) >>) >>

\* Session 3: global bindings, writes from inside a call, a failing call.
GlobalsSession ==
    << \* let x = 10
       Source(<< VariableDeclaration("x", <<Num(10)>>) >>),
       \* x + 5
       Source(<< ExpressionStatement(Add(Identifier("x"), Num(5))) >>),
       \* function bump(v) { x = v; y = v; return y; }  bump(1)
       Source(<< FunctionDeclaration("bump", <<"v">>,
                     << ExpressionStatement(Assignment(Identifier("x"), Identifier("v"))),
                        ExpressionStatement(Assignment(Identifier("y"), Identifier("v"))),
                        ReturnStatement(<<Identifier("y")>>) >>),
                 CallStatement("bump", <<Num(1)>>) >>),
       \* function f(x) { return g(x); }  f(1)        (g is bound nowhere)
       Source(<< FunctionDeclaration("f", <<"x">>,
                     << ReturnStatement(<<Call(Identifier("g"), <<Identifier("x")>>)>>) >>),
                 CallStatement("f", <<Num(1)>>) >>),
       \* let y = 20; x + y
       Source(<< VariableDeclaration("y", <<Num(20)>>),
                 ExpressionStatement(Add(Identifier("x"), Identifier("y"))) >>) >>

\* Session 4: calls, parameters and results.
CallsSession ==
    << \* function add(a, b) { return a + b; }  add(2, 3)
       Source(<< FunctionDeclaration("add", <<"a", "b">>,
                     << ReturnStatement(<<Add(Identifier("a"), Identifier("b"))>>) >>),
                 CallStatement("add", <<Num(2), Num(3)>>) >>),
       \* 1 + add(2, 3, 4)
       Source(<< ExpressionStatement(
                     Add(Num(1), Call(Identifier("add"), <<Num(2), Num(3), Num(4)>>))) >>),
       \* let b = 7; function h(a, b) { return b; }  h(1)
       Source(<< VariableDeclaration("b", <<Num(7)>>),
                 FunctionDeclaration("h", <<"a", "b">>, << ReturnStatement(<<Identifier("b")>>) >>),
                 CallStatement("h", <<Num(1)>>) >>),
       \* function twice(a) { return add(a, a) + 1; }  twice(4)
       Source(<< FunctionDeclaration("twice", <<"a">>,
                     << ReturnStatement(<<Add(Call(Identifier("add"),
                                                   <<Identifier("a"), Identifier("a")>>),
                                              Num(1))>>) >>),
                 CallStatement("twice", <<Num(4)>>) >>),
       \* function noop() { }
       Source(<< FunctionDeclaration("noop", <<>>, <<>>) >>) >>

\* Session 5: array and object literals, property access.
LiteralsSession ==
    << \* let a = [10, 20, 30]
       Source(<< VariableDeclaration("a", <<ArrayLiteral(<<Num(10), Num(20), Num(30)>>)>>) >>),
       \* a[1]
       Source(<< ExpressionStatement(MemberAccess(Identifier("a"), Num(1), TRUE)) >>),
       \* a.length
       Source(<< ExpressionStatement(
                     MemberAccess(Identifier("a"), Literal(String("length")), FALSE)) >>),
       \* [10, 20]
       Source(<< ExpressionStatement(ArrayLiteral(<<Num(10), Num(20)>>)) >>),
       \* let o = {a: 1}; o.a = o.a + 2; o["a"]
       Source(<< VariableDeclaration("o", <<ObjectLiteral(<< <<"a", Num(1)>> >>)>>),
                 ExpressionStatement(
                     Assignment(MemberAccess(Identifier("o"), Literal(String("a")), FALSE),
                                Add(MemberAccess(Identifier("o"), Literal(String("a")), FALSE),
                                    Num(2)))),
                 ExpressionStatement(
                     MemberAccess(Identifier("o"), Literal(String("a")), TRUE)) >>) >>

\* A callee that returns 8 and leaves 7 behind on its own operand stack.
ResidueBody ==
    Chunk(<< OpcodeIdx("LoadConst", 0), OpcodeIdx("LoadConst", 1), Opcode("Return") >>,
          << Number(7), Number(8) >>)

\* Session 6: hand-built chunks and top-level returns.
ChunksSession ==
    << \* 1 + (the residue callee)()
       RawChunk(Chunk(<< OpcodeIdx("LoadConst", 0), OpcodeIdx("CreateFunction", 1),
                         OpcodeIdx("CallFunction", 0), Opcode("Add") >>,
                      << Number(1), Function(ResidueBody, <<>>, 0) >>)),
       \* two values pushed, one popped, none returned by a Return
       RawChunk(Chunk(<< OpcodeIdx("LoadConst", 0), OpcodeIdx("LoadConst", 1), Opcode("Pop") >>,
                      << Number(1), String("s") >>)),
       \* return 5; 7
       Source(<< ReturnStatement(<<Num(5)>>), ExpressionStatement(Num(7)) >>),
       \* [] ; function noop() { }
       Source(<< ExpressionStatement(ArrayLiteral(<<>>)),
                 FunctionDeclaration("noop", <<>>, <<>>) >>) >>

\* Session 7: property writes and reads through several references.
PropertiesSession ==
    << \* let o = {a: 1}; let p = o; let q = {a: 5}
       Source(<< VariableDeclaration("o", <<ObjectLiteral(<< <<"a", Num(1)>> >>)>>),
                 VariableDeclaration("p", <<Identifier("o")>>),
                 VariableDeclaration("q", <<ObjectLiteral(<< <<"a", Num(5)>> >>)>>) >>),
       \* o[1] = 7; p["1"]
       Source(<< ExpressionStatement(
                     Assignment(MemberAccess(Identifier("o"), Num(1), TRUE), Num(7))),
                 ExpressionStatement(
                     MemberAccess(Identifier("p"), Literal(String("1")), TRUE)) >>),
       \* p.a = 9; o["a"]
       Source(<< ExpressionStatement(
                     Assignment(MemberAccess(Identifier("p"), Literal(String("a")), FALSE),
                                Num(9))),
                 ExpressionStatement(
                     MemberAccess(Identifier("o"), Literal(String("a")), TRUE)) >>),
       \* q.a + q[1]
       Source(<< ExpressionStatement(
                     Add(MemberAccess(Identifier("q"), Literal(String("a")), FALSE),
                         MemberAccess(Identifier("q"), Num(1), TRUE))) >>) >>

\* Session 8: programs that fail half way, and a program that reads what they wrote.
FaultsSession ==
    << \* let n = 5; n.a = 1; n = 6
       Source(<< VariableDeclaration("n", <<Num(5)>>),
                 ExpressionStatement(
                     Assignment(MemberAccess(Identifier("n"), Literal(String("a")), FALSE),
                                Num(1))),
                 ExpressionStatement(Assignment(Identifier("n"), Num(6))) >>),
       \* let o = {}; o.a = 1; u.b = 2; o.a = 3        (u is bound nowhere)
       Source(<< VariableDeclaration("o", <<ObjectLiteral(<<>>)>>),
                 ExpressionStatement(
                     Assignment(MemberAccess(Identifier("o"), Literal(String("a")), FALSE),
                                Num(1))),
                 ExpressionStatement(
                     Assignment(MemberAccess(Identifier("u"), Literal(String("b")), FALSE),
                                Num(2))),
                 ExpressionStatement(
                     Assignment(MemberAccess(Identifier("o"), Literal(String("a")), FALSE),
                                Num(3))) >>),
       \* o.a + n
       Source(<< ExpressionStatement(
                     Add(MemberAccess(Identifier("o"), Literal(String("a")), FALSE),
                         Identifier("n"))) >>) >>

\* Session 9: hand-built chunks whose instructions meet a value of the wrong type.
RawFaultsSession ==
    << \* ArrayPush with the number 1 where the array should be
       RawChunk(Chunk(<< OpcodeIdx("LoadConst", 0), OpcodeIdx("LoadConst", 1),
                         OpcodeIdx("LoadConst", 2), Opcode("ArrayPush"),
                         OpcodeName("StoreVar", "r") >>,
                      << Number(1), Number(2), Number(0) >>)),
       \* ObjectSetProperty with nothing below the value and the key
       RawChunk(Chunk(<< OpcodeIdx("LoadConst", 0), OpcodeIdx("LoadConst", 1),
                         Opcode("ObjectSetProperty"), OpcodeIdx("LoadConst", 0),
                         OpcodeName("StoreVar", "r") >>,
                      << String("v"), String("k") >>)),
       \* CreateFunction on a constant that is a number
       RawChunk(Chunk(<< OpcodeIdx("CreateFunction", 0), OpcodeName("StoreVar", "f") >>,
                      << Number(1) >>)) >>

\* Session 10: programs whose outcome depends on what the engine ran before.
TwinSession ==
    << \* function counter() {..}  var inc = counter();
       CounterSession[1],
       \* var o = {a: [inc()]}; o.n = o.a[0]; "" + (o && o) + (o.n || 0)
       Source(<< VariableDeclaration("o",
                     <<ObjectLiteral(<< <<"a", ArrayLiteral(<<Call(Identifier("inc"), <<>>)>>)>> >>)>>),
                 ExpressionStatement(
                     Assignment(MemberAccess(Identifier("o"), Literal(String("n")), FALSE),
                                MemberAccess(
                                    MemberAccess(Identifier("o"), Literal(String("a")), FALSE),
                                    Num(0), TRUE))),
                 ExpressionStatement(
                     Add(Add(Literal(String("")),
                             Binary("And", Identifier("o"), Identifier("o"))),
                         Binary("Or",
                                MemberAccess(Identifier("o"), Literal(String("n")), FALSE),
                                Num(0)))) >>),
       \* 1 + (the residue callee)(), as a hand-built chunk
       ChunksSession[1] >>

\* Session 11: the logical operators on values of every kind.
LogicSession ==
    << \* let o = {}; let z = 0; let f = function() { }
       Source(<< VariableDeclaration("o", <<ObjectLiteral(<<>>)>>),
                 VariableDeclaration("z", <<Num(0)>>),
                 VariableDeclaration("f", <<FunctionExpression(<<>>, <<>>)>>) >>),
       \* o && z
       Source(<< ExpressionStatement(Binary("And", Identifier("o"), Identifier("z"))) >>),
       \* z || o
       Source(<< ExpressionStatement(Binary("Or", Identifier("z"), Identifier("o"))) >>),
       \* ("" && o) || f
       Source(<< ExpressionStatement(
                     Binary("Or", Binary("And", Literal(String("")), Identifier("o")),
                            Identifier("f"))) >>),
       \* And, then Or, with one operand on the stack
       RawChunk(Chunk(<< OpcodeIdx("LoadConst", 0), Opcode("And"), Opcode("Or") >>,
                      << Number(1) >>)) >>

\* Session 12: programs the front end or the compiler rejects.
RejectedSession ==
    << \* let n = 1; let o = {}
       Source(<< VariableDeclaration("n", <<Num(1)>>),
                 VariableDeclaration("o", <<ObjectLiteral(<<>>)>>) >>),
       \* n = 2; o.a = 1; delete o.a
       Source(<< ExpressionStatement(Assignment(Identifier("n"), Num(2))),
                 ExpressionStatement(
                     Assignment(MemberAccess(Identifier("o"), Literal(String("a")), FALSE),
                                Num(1))),
                 ExpressionStatement(
                     Unary("Delete",
                           MemberAccess(Identifier("o"), Literal(String("a")), FALSE))) >>),
       \* n = 3; 1 = n
       Source(<< ExpressionStatement(Assignment(Identifier("n"), Num(3))),
                 ExpressionStatement(Assignment(Num(1), Identifier("n"))) >>),
       \* a "1      (the line ends inside the string)
       Text(<< "a", " ", "\"", "1", "\n" >>),
       \* "" + n + o.a
       Source(<< ExpressionStatement(
                     Add(Add(Literal(String("")), Identifier("n")),
                         MemberAccess(Identifier("o"), Literal(String("a")), FALSE))) >>) >>

\* Session 13: hand-built chunks with indices, jump targets and pops out of
\* range.
BoundsSession ==
    << \* LoadConst 1 with one constant in the pool
       RawChunk(Chunk(<< OpcodeIdx("LoadConst", 0), OpcodeIdx("LoadConst", 1) >>,
                      << Number(1) >>)),
       \* CreateFunction 2 with one constant in the pool
       RawChunk(Chunk(<< OpcodeIdx("CreateFunction", 2) >>,
                      << Function(Chunk(<<>>, <<>>), <<>>, 0) >>)),
       \* a Jump over one instruction, then a Jump to 9 in a sequence of five
       RawChunk(Chunk(<< OpcodeIdx("LoadConst", 0), OpcodeIdx("Jump", 3),
                         OpcodeIdx("LoadConst", 1), OpcodeIdx("Jump", 9),
                         OpcodeIdx("LoadConst", 1) >>,
                      << Number(1), Number(2) >>)),
       \* a JumpIfFalse not taken, then one taken to 9 in a sequence of five
       RawChunk(Chunk(<< OpcodeIdx("LoadConst", 0), OpcodeIdx("JumpIfFalse", 9),
                         OpcodeIdx("LoadConst", 1), OpcodeIdx("JumpIfFalse", 9),
                         OpcodeIdx("LoadConst", 0) >>,
                      << Number(1), Number(0) >>)),
       \* a JumpIfFalse with nothing on the stack
       RawChunk(Chunk(<< OpcodeIdx("JumpIfFalse", 0) >>, <<>>)),
       \* a Pop with nothing on the stack, then a constant
       RawChunk(Chunk(<< Opcode("Pop"), OpcodeIdx("LoadConst", 0) >>, << Number(1) >>)),
       \* a Return with nothing on the stack
       RawChunk(Chunk(<< Opcode("Return") >>, <<>>)) >>

\* Session 14: logical operators whose right operand has an effect or fails.
OperandsSession ==
    << \* let n = 0; function f() { n = n + 1; return n; }
       Source(<< VariableDeclaration("n", <<Num(0)>>),
                 FunctionDeclaration("f", <<>>,
                     << ExpressionStatement(
                            Assignment(Identifier("n"), Add(Identifier("n"), Num(1)))),
                        ReturnStatement(<<Identifier("n")>>) >>) >>),
       \* false && f()
       Source(<< ExpressionStatement(
                     Binary("And", Literal(Boolean(FALSE)), Call(Identifier("f"), <<>>))) >>),
       \* true || g()      (g is bound nowhere)
       Source(<< ExpressionStatement(
                     Binary("Or", Literal(Boolean(TRUE)), Call(Identifier("g"), <<>>))) >>),
       \* n
       Source(<< ExpressionStatement(Identifier("n")) >>) >>

\* Session 15: callees that end with and without a Return.
EndingsSession ==
    << \* let t = 0; function e() { }  function v() { 1; 2 }
       \* function d() { 3; let x = 4 }  function g() { 5; function h() { } }
       \* function r() { return 6; t = 7; 8 }
       Source(<< VariableDeclaration("t", <<Num(0)>>),
                 FunctionDeclaration("e", <<>>, <<>>),
                 FunctionDeclaration("v", <<>>,
                     << ExpressionStatement(Num(1)), ExpressionStatement(Num(2)) >>),
                 FunctionDeclaration("d", <<>>,
                     << ExpressionStatement(Num(3)), VariableDeclaration("x", <<Num(4)>>) >>),
                 FunctionDeclaration("g", <<>>,
                     << ExpressionStatement(Num(5)), FunctionDeclaration("h", <<>>, <<>>) >>),
                 FunctionDeclaration("r", <<>>,
                     << ReturnStatement(<<Num(6)>>),
                        ExpressionStatement(Assignment(Identifier("t"), Num(7))),
                        ExpressionStatement(Num(8)) >>) >>),
       \* e(); v(); d(); g(); r()
       Source(<< CallStatement("e", <<>>), CallStatement("v", <<>>), CallStatement("d", <<>>),
                 CallStatement("g", <<>>), CallStatement("r", <<>>) >>) >>

\* Session 16: declarations in a function body of names bound further out.
ShadowSession ==
    << \* let g = 1; function h() { }
       \* function outer(p) {
       \*     let q = 2;
       \*     function inner(p, s) { let g = 3; let q = 4; function h() { return 5 } let w = 6 }
       \*     return inner(7, 8, 9);
       \* }
       Source(<< VariableDeclaration("g", <<Num(1)>>),
                 FunctionDeclaration("h", <<>>, <<>>),
                 FunctionDeclaration("outer", <<"p">>,
                     << VariableDeclaration("q", <<Num(2)>>),
                        FunctionDeclaration("inner", <<"p", "s">>,
                            << VariableDeclaration("g", <<Num(3)>>),
                               VariableDeclaration("q", <<Num(4)>>),
                               FunctionDeclaration("h", <<>>, << ReturnStatement(<<Num(5)>>) >>),
                               VariableDeclaration("w", <<Num(6)>>) >>),
                        ReturnStatement(<<Call(Identifier("inner"),
                                               <<Num(7), Num(8), Num(9)>>)>>) >>) >>),
       \* outer(0)
       Source(<< CallStatement("outer", <<Num(0)>>) >>),
       \* g + h()
       Source(<< ExpressionStatement(Add(Identifier("g"), Call(Identifier("h"), <<>>))) >>) >>

\* Session 17: names declared const, assigned and declared again.
KindsSession ==
    << \* const x = 1; x = 2; x
       Source(<< KindDeclaration("Const", "x", <<Num(1)>>),
                 ExpressionStatement(Assignment(Identifier("x"), Num(2))),
                 ExpressionStatement(Identifier("x")) >>),
       \* let x = 3; var x = 4; const x = 5; const x; let x = 6; x
       Source(<< KindDeclaration("Let", "x", <<Num(3)>>),
                 KindDeclaration("Var", "x", <<Num(4)>>),
                 KindDeclaration("Const", "x", <<Num(5)>>),
                 KindDeclaration("Const", "x", <<>>),
                 KindDeclaration("Let", "x", <<Num(6)>>),
                 ExpressionStatement(Identifier("x")) >>) >>

Sessions ==
    << CounterSession, AdderSession, GlobalsSession, CallsSession, LiteralsSession,
       ChunksSession, PropertiesSession, FaultsSession, RawFaultsSession, TwinSession,
       LogicSession, RejectedSession, BoundsSession, OperandsSession, EndingsSession,
       ShadowSession, KindsSession >>


(***************************************************************************)
(* The engine: one JSEngine owning one VM (src/src/lib.rs, vm/mod.rs).     *)
(***************************************************************************)
VARIABLES
    session,    \* the pool of inputs this engine's host draws from
    nevals,     \* inputs submitted so far
    input,      \* index in the session of the input submitted last (0: none yet)
    status,     \* "idle": no call of eval/execute is active; "running"; "panic"
    result,     \* what the last call returned: ok with a value, err with a category
    stack,      \* VM.stack
    env,        \* VM.env, an index into envs
    envs,       \* the heap of Environment records; envs[1] is the one VM::new made
    objs,       \* the heap of JSObject records
    frames,     \* the activations of VM::execute, innermost last
    hist,       \* history: the calls that completed, <<callee, arguments, result>>
    topBound,   \* history: name -> the environment a top-level StoreVar last wrote it in
    host_chunk, \* a BytecodeChunk the host builds through the chunk's own methods
    log,        \* history: the host's calls and what each returned, oldest first
    engine,     \* which of the host's engines the VM fields above belong to
    parked,     \* the VM fields of the host's other engines, by engine
    shared,     \* for the objects a host makes: object -> the property map (Rc) it holds
    host_array  \* a JSArray the host builds through the array's own methods

\* What belongs to the host rather than to the engine at work.
host == <<host_chunk, log, engine, parked, shared, host_array>>

vars ==
    <<session, nevals, input, status, result, stack, env, envs, objs, frames, hist, topBound,
      host>>

\* The VM's fields and the history of its runs.
vm == <<session, nevals, input, status, result, stack, env, envs, objs, frames, hist, topBound>>

\* The environment VM::new creates.
GlobalEnv == 1

Ok(value) == [kind |-> "ok", value |-> value]

Err(category) == [kind |-> "err", category |-> category]

Init ==
    /\ session \in 1..Len(Sessions)
    /\ nevals = 0
    /\ input = 0
    /\ status = "idle"
    /\ result = [kind |-> "none"]
    /\ stack = <<>>
    /\ env = GlobalEnv
    /\ envs = <<Environment_new>>
    /\ objs = <<>>
    /\ frames = <<>>
    /\ hist = <<>>
    /\ topBound = EmptyMap
    /\ host_chunk = BytecodeChunk_new
    /\ log = <<>>
    /\ engine = 1
    /\ parked = <<>>
    /\ shared = <<>>
    /\ host_array = <<>>

\* The running activation, its next instruction and that instruction's operand.
Top == frames[Len(frames)]

AtOp(op) ==
    /\ status = "running"
    /\ Top.pc < Len(Top.chunk.code)
    /\ Top.chunk.code[Top.pc + 1].op = op

\* The next instruction's operand: an index or count, or a name.
Operand == Top.chunk.code[Top.pc + 1].idx

Name == Top.chunk.code[Top.pc + 1].name

\* frames after the fetch's pc += 1; the depth of the operand stack at the
\* fetch is noted in the activation's seen.
Fetched ==
    [frames EXCEPT ![Len(frames)].pc = @ + 1, ![Len(frames)].seen = Append(@, Len(stack))]

\* An activation of execute.  For a callee, old_env and old_stack are the
\* locals of the CallFunction arm that re-entered execute, func and args the
\* callee and its arguments; pre_env and pre_stack record, for the history,
\* VM.env and VM.stack as they were when the CallFunction was fetched, and
\* seen the lengths of VM.stack at the activation's fetches, in order: as long
\* as no jump is taken, seen[p + 1] is the length at the fetch at position p.
Activation(chunk, old_env, old_stack, func, args, pre_env, pre_stack) ==
    [chunk |-> chunk, pc |-> 0, old_env |-> old_env, old_stack |-> old_stack,
     func |-> func, args |-> args, pre_env |-> pre_env, pre_stack |-> pre_stack,
     seen |-> <<>>]

\* The instruction completes: stack, environments and objects as given.
Continue(stk, E, O) ==
    /\ stack' = stk
    /\ envs' = E
    /\ objs' = O
    /\ frames' = Fetched
    /\ UNCHANGED <<session, nevals, input, status, result, env, hist, topBound, host>>

\* A failure that is noted while the loop goes on with the next instruction.
Raise_and_go_on(category, stk) ==
    /\ result' = Err(category)
    /\ frames' = Fetched
    /\ stack' = stk
    /\ UNCHANGED <<session, nevals, input, status, env, envs, objs, hist, topBound, host>>

\* A failure after which the VM is built anew.
Raise_and_rebuild(category, stk) ==
    /\ status' = "idle"
    /\ result' = Err(category)
    /\ frames' = <<>>
    /\ stack' = <<>>
    /\ env' = GlobalEnv
    /\ envs' = <<Environment_new>>
    /\ objs' = <<>>
    /\ UNCHANGED <<session, nevals, input, hist, topBound, host>>

\* The instruction fails: Err propagates by `?` through every activation of
\* execute to the host.  The VM's environment and stack stay as they are.
Raise(category, stk) ==
    /\ status' = "idle"
    /\ result' = Err(category)
    /\ frames' = <<>>
    /\ stack' = stk
    /\ UNCHANGED <<session, nevals, input, env, envs, objs, hist, topBound, host>>

\* An index out of a Vec's bounds: the host thread panics.
Panic ==
    /\ status' = "panic"
    /\ UNCHANGED <<session, nevals, input, result, stack, env, envs, objs, frames, hist, topBound, host>>

\* VM::execute is entered from the host with chunk.
Enter(i, chunk) ==
    /\ nevals' = nevals + 1
    /\ input' = i
    /\ status' = "running"
    /\ result' = [kind |-> "none"]
    /\ frames' = <<Activation(chunk, 0, <<>>, Undefined, <<>>, 0, <<>>)>>
    /\ UNCHANGED <<session, stack, env, envs, objs, hist, topBound, host>>

\* eval returns the error of a stage before execute.
Rejected(i, category) ==
    /\ nevals' = nevals + 1
    /\ input' = i
    /\ result' = Err(category)
    /\ UNCHANGED <<session, status, stack, env, envs, objs, frames, hist, topBound, host>>

\* An eval that executes what the compiler had emitted when it failed.
JSEngine_eval_emitted(i) ==
    /\ status = "idle"
    /\ nevals < MaxEvals
    /\ Sessions[session][i].kind = "source"
    /\ Enter(i, finished(compile(Sessions[session][i].body)))

\* JSEngine::eval on the i-th input of the session: a text goes through the
\* lexer (the texts of the sessions are ones it does not accept), a program
\* given as its AST through the compiler and the VM.
JSEngine_eval(i) ==
    /\ status = "idle"
    /\ nevals < MaxEvals
    /\ Sessions[session][i].kind \in {"source", "text"}
    /\ IF Sessions[session][i].kind = "text"
       THEN LET tokens == tokenize(Sessions[session][i].source)
            IN  /\ tokens.r # "ok"
                /\ IF tokens.r = "err" THEN Rejected(i, tokens.category) ELSE Panic
       ELSE LET bytecode == compile(Sessions[session][i].body)
            IN  IF bytecode.err # ""
                THEN Rejected(i, bytecode.err)
                ELSE Enter(i, finished(bytecode))

\* VM::execute called by the host on the i-th input of the session.
VM_execute(i) ==
    /\ status = "idle"
    /\ nevals < MaxEvals
    /\ Sessions[session][i].kind = "chunk"
    /\ Enter(i, Sessions[session][i].chunk)

LoadConst ==
    /\ AtOp("LoadConst")
    /\ IF Operand < Len(Top.chunk.constants)
       THEN Continue(Append(stack, Top.chunk.constants[Operand + 1]), envs, objs)
       ELSE Panic

\* A LoadVar that refuses a name bound nowhere.
LoadVar_or_ReferenceError ==
    /\ AtOp("LoadVar")
    /\ LET found == Environment_get(envs, env, Name)
       IN  IF found = <<>>
           THEN Raise("ReferenceError", stack)
           ELSE Continue(Append(stack, found[1]), envs, objs)

LoadVar ==
    /\ AtOp("LoadVar")
    /\ LET found == Environment_get(envs, env, Name)
       IN  Continue(Append(stack, IF found = <<>> THEN Undefined ELSE found[1]), envs, objs)

RECURSIVE holder(_, _, _)
\* The environment on e's chain in which Environment::set finds name (0: none).
holder(E, e, name) ==
    IF name \in DOMAIN E[e].bindings THEN e
    ELSE IF E[e].outer # 0 THEN holder(E, E[e].outer, name) ELSE 0

\* A StoreVar that leaves a name alone once it is bound.
store_var_once(E, e, name, value) ==
    IF Environment_get(E, e, name) # <<>> THEN E ELSE Environment_define(E, e, name, value)

\* A StoreVar that binds in the current environment whatever the chain holds.
store_var_local(E, e, name, value) == Environment_define(E, e, name, value)

\* The heap after StoreVar(name) of value with e current.
store_var(E, e, name, value) ==
    IF Environment_set(E, e, name, value).ok
    THEN Environment_set(E, e, name, value).envs
    ELSE Environment_define(E, e, name, value)

StoreVar ==
    /\ AtOp("StoreVar")
    /\ IF stack = <<>>
       THEN Raise("InternalError", <<>>)
       ELSE /\ stack' = SubSeq(stack, 1, Len(stack) - 1)
            /\ envs' = store_var(envs, env, Name, stack[Len(stack)])
            /\ frames' = Fetched
            /\ topBound' = IF Len(frames) = 1
                           THEN Insert(topBound, Name,
                                       IF holder(envs, env, Name) # 0
                                       THEN holder(envs, env, Name) ELSE env)
                           ELSE topBound
            /\ UNCHANGED <<session, nevals, input, status, result, env, objs, hist, host>>

\* self.stack.pop() with the Option it returns dropped.
Pop ==
    /\ AtOp("Pop")
    /\ Continue(IF stack = <<>> THEN <<>> ELSE SubSeq(stack, 1, Len(stack) - 1), envs, objs)

\* The closure of Opcode::Add.
add_values(a, b) ==
    CASE a.t = "String" /\ b.t = "String" -> String(a.s \o b.s)
      [] a.t = "String" /\ b.t # "String" -> String(a.s \o to_string(b))
      [] a.t # "String" /\ b.t = "String" -> String(to_string(a) \o b.s)
      [] OTHER -> f64_add(to_number(a), to_number(b))

\* stk without its n topmost values.
drop(stk, n) == SubSeq(stk, 1, Len(stk) - n)

\* VM::binary_op with the closure of Opcode::Add.
AddOp ==
    /\ AtOp("Add")
    /\ IF Len(stack) < 2
       THEN Raise("InternalError", <<>>)
       ELSE Continue(Append(drop(stack, 2), add_values(stack[Len(stack) - 1], stack[Len(stack)])),
                     envs, objs)

\* An And that pushes the conjunction of the operands' truth values.
and_values_coerced(a, b) == Boolean(to_boolean(a) /\ to_boolean(b))

\* What Opcode::And pushes for the operands a (below) and b (on top).
and_values(a, b) == IF ~to_boolean(a) THEN a ELSE b

\* An Or that pushes the disjunction of the operands' truth values.
or_values_coerced(a, b) == Boolean(to_boolean(a) \/ to_boolean(b))

\* What Opcode::Or pushes for the operands a (below) and b (on top).
or_values(a, b) == IF to_boolean(a) THEN a ELSE b

\* Opcode::And: b is popped, then a.
AndOp ==
    /\ AtOp("And")
    /\ IF Len(stack) < 2
       THEN Raise("InternalError", <<>>)
       ELSE Continue(Append(drop(stack, 2), and_values(stack[Len(stack) - 1], stack[Len(stack)])),
                     envs, objs)

\* Opcode::Or: b is popped, then a.
OrOp ==
    /\ AtOp("Or")
    /\ IF Len(stack) < 2
       THEN Raise("InternalError", <<>>)
       ELSE Continue(Append(drop(stack, 2), or_values(stack[Len(stack) - 1], stack[Len(stack)])),
                     envs, objs)

NewArray ==
    /\ AtOp("NewArray")
    /\ Continue(Append(stack, Object(Len(objs) + 1)), envs, Append(objs, JSArray_to_object(<<>>)))

NewObject ==
    /\ AtOp("NewObject")
    /\ Continue(Append(stack, Object(Len(objs) + 1)), envs, Append(objs, JSObject_new))

GetProperty ==
    /\ AtOp("GetProperty")
    /\ IF Len(stack) < 2
       THEN Raise("InternalError", <<>>)
       ELSE LET key == stack[Len(stack)]
                obj == stack[Len(stack) - 1]
            IN  Continue(Append(drop(stack, 2),
                                IF obj.t = "Object"
                                THEN JSObject_get(objs, obj.ref, to_string(key))
                                ELSE Undefined),
                         envs, objs)

SetProperty ==
    /\ AtOp("SetProperty")
    /\ IF Len(stack) < 3
       THEN Raise("InternalError", <<>>)
       ELSE LET value == stack[Len(stack)]
                key == stack[Len(stack) - 1]
                obj == stack[Len(stack) - 2]
            IN  IF obj.t = "Object"
                THEN Continue(Append(drop(stack, 3), obj), envs,
                              set_property(objs, obj.ref, to_string(key), value))
                ELSE Raise("TypeError", drop(stack, 3))

\* The key ArrayPush writes: index.to_number() as usize, to_string.
array_key(index) == f64_to_string(as_usize(to_number(index)))

ArrayPush ==
    /\ AtOp("ArrayPush")
    /\ IF Len(stack) < 2
       THEN Raise("InternalError", <<>>)
       ELSE LET index == stack[Len(stack)]
                value == stack[Len(stack) - 1]
                rest == drop(stack, 2)
            IN  IF rest # <<>> /\ rest[Len(rest)].t = "Object"
                THEN Continue(rest, envs,
                              set_property(objs, rest[Len(rest)].ref, array_key(index), value))
                ELSE Raise("TypeError", rest)

ObjectSetProperty ==
    /\ AtOp("ObjectSetProperty")
    /\ IF Len(stack) < 2
       THEN Raise("InternalError", <<>>)
       ELSE LET key == stack[Len(stack)]
                value == stack[Len(stack) - 1]
                rest == drop(stack, 2)
            IN  IF rest # <<>> /\ rest[Len(rest)].t = "Object"
                THEN Continue(rest, envs,
                              set_property(objs, rest[Len(rest)].ref, to_string(key), value))
                ELSE Raise("TypeError", rest)

\* A CreateFunction that pushes the constant as it is, capturing nothing.
captured_none(cur) == 0

\* The environment CreateFunction stores in the closure, cur being VM.env.
captured(cur) == cur

CreateFunction ==
    /\ AtOp("CreateFunction")
    /\ IF Operand < Len(Top.chunk.constants)
       THEN LET func_const == Top.chunk.constants[Operand + 1]
            IN  IF func_const.t = "Function"
                THEN Continue(Append(stack, Function(func_const.chunk, func_const.params,
                                                     captured(env))),
                              envs, objs)
                ELSE Raise("TypeError", stack)
       ELSE Panic

\* The arguments in the order the pops deliver them, the reverse() left out.
popped_args_unreversed(stk, n) == [i \in 1..n |-> stk[Len(stk) - i + 1]]

\* The arguments of CallFunction(n) in source order: n pops, then reverse.
popped_args(stk, n) == SubSeq(stk, Len(stk) - n + 1, Len(stk))

\* A callee frame linked to the caller's environment, whatever was captured.
call_outer_dynamic(func, cur) == cur

\* The outer environment of a callee's frame, cur being VM.env.
call_outer(func, cur) == IF func.env # 0 THEN func.env ELSE cur

\* The name the i-th argument (0-based) is bound to.
arg_name(params, i) == IF i < Len(params) THEN params[i + 1] ELSE "arg" \o f64_to_string(i)

RECURSIVE bind_arguments(_, _, _, _, _)
\* The heap after the arguments from the i-th (0-based) on are defined in new_env.
bind_arguments(E, new_env, params, args, i) ==
    IF i >= Len(args)
    THEN E
    ELSE bind_arguments(Environment_define(E, new_env, arg_name(params, i), args[i + 1]),
                        new_env, params, args, i + 1)

CallFunction ==
    /\ AtOp("CallFunction")
    /\ IF Len(stack) < Operand + 1
       THEN Raise("InternalError", <<>>)
       ELSE LET args == popped_args(stack, Operand)
                func == stack[Len(stack) - Operand]
                rest == drop(stack, Operand + 1)
                new_env == Len(envs) + 1
            IN  IF func.t = "Function"
                THEN /\ envs' = bind_arguments(
                                    Append(envs, Environment_with_outer(call_outer(func, env))),
                                    new_env, func.params, args, 0)
                     /\ env' = new_env
                     /\ stack' = <<>>
                     /\ frames' = Append(Fetched,
                                         Activation(func.chunk, env, rest, func, args, env, stack))
                     /\ UNCHANGED <<session, nevals, input, status, result, objs, hist, topBound, host>>
                ELSE Raise("TypeError", rest)

\* The result pushed on the callee's stack, old_stack never swapped back in.
restored_stack_inner(old_stack, inner_stack, res) == Append(inner_stack, res)

\* The caller's stack after a call: old_stack swapped back in, the result pushed.
restored_stack(old_stack, inner_stack, res) == Append(old_stack, res)

\* The caller's environment after a call.
restored_env(old_env, inner_env) == old_env

\* execute returns Ok(value) with stk left on the operand stack: to the host
\* from the outermost activation, to the CallFunction arm from a callee's.
Deliver(value, stk) ==
    IF Len(frames) = 1
    THEN /\ status' = "idle"
         /\ result' = Ok(value)
         /\ frames' = <<>>
         /\ stack' = stk
         /\ UNCHANGED <<session, nevals, input, env, envs, objs, hist, topBound, host>>
    ELSE /\ frames' = SubSeq(frames, 1, Len(frames) - 1)
         /\ stack' = restored_stack(Top.old_stack, stk, value)
         /\ env' = restored_env(Top.old_env, env)
         /\ hist' = Append(hist, <<Top.func, Top.args, value>>)
         /\ UNCHANGED <<session, nevals, input, status, result, envs, objs, topBound, host>>

Return ==
    /\ AtOp("Return")
    /\ IF stack = <<>>
       THEN Raise("InternalError", <<>>)
       ELSE Deliver(stack[Len(stack)], drop(stack, 1))

\* Opcode::Jump: pc = *offset, whatever the offset.
Jump ==
    /\ AtOp("Jump")
    /\ frames' = [Fetched EXCEPT ![Len(frames)].pc = Operand]
    /\ UNCHANGED <<session, nevals, input, status, result, stack, env, envs, objs, hist,
                   topBound, host>>

\* Opcode::JumpIfFalse: the condition is popped; pc = *offset when it is falsy.
JumpIfFalse ==
    /\ AtOp("JumpIfFalse")
    /\ IF stack = <<>>
       THEN Raise("InternalError", <<>>)
       ELSE /\ stack' = drop(stack, 1)
            /\ frames' = IF to_boolean(stack[Len(stack)])
                          THEN Fetched
                          ELSE [Fetched EXCEPT ![Len(frames)].pc = Operand]
            /\ UNCHANGED <<session, nevals, input, status, result, env, envs, objs, hist,
                           topBound, host>>

\* An end of the instruction sequence that returns Undefined whatever is on
\* the stack.
FallThrough_undefined ==
    /\ status = "running"
    /\ Top.pc >= Len(Top.chunk.code)
    /\ Deliver(Undefined, stack)

\* The end of the instruction sequence is reached.
FallThrough ==
    /\ status = "running"
    /\ Top.pc >= Len(Top.chunk.code)
    /\ IF stack # <<>>
       THEN Deliver(stack[Len(stack)], drop(stack, 1))
       ELSE Deliver(Undefined, <<>>)

Next ==
    \/ \E i \in 1..Len(Sessions[session]) : JSEngine_eval(i)
    \/ \E i \in 1..Len(Sessions[session]) : VM_execute(i)
    \/ LoadConst
    \/ LoadVar
    \/ StoreVar
    \/ Pop
    \/ AddOp
    \/ AndOp
    \/ OrOp
    \/ NewArray
    \/ NewObject
    \/ GetProperty
    \/ SetProperty
    \/ ArrayPush
    \/ ObjectSetProperty
    \/ CreateFunction
    \/ CallFunction
    \/ Jump
    \/ JumpIfFalse
    \/ Return
    \/ FallThrough

Spec == Init /\ [][Next]_vars

(***************************************************************************)
(* The shift opcodes (src/src/vm/mod.rs, 129-138 and VM::bitwise_op).  An  *)
(* i32 is an integer of i32's range taken in two's complement.  Every      *)
(* number of the model lies in that range.                                 *)
(***************************************************************************)
i32_MAX == 2147483647

i32_MIN == (-1073741824) - 1073741824

\* f as i32: NaN gives 0, a value out of range the nearest bound.
as_i32(f) ==
    IF is_nan(f) THEN 0
    ELSE IF f.n > i32_MAX THEN i32_MAX ELSE IF f.n < i32_MIN THEN i32_MIN ELSE f.n

\* f as u32: NaN and the negative values give 0.
as_u32(f) == IF is_nan(f) THEN 0 ELSE IF f.n < 0 THEN 0 ELSE f.n

\* Bit k of the i32 x.
bit(x, k) == IF k = 31 THEN (IF x < 0 THEN 1 ELSE 0) ELSE (x \div (2 ^ k)) % 2

RECURSIVE low_bits(_, _)
\* The number whose bits below k are B's.
low_bits(B, k) == IF k = 0 THEN 0 ELSE low_bits(B, k - 1) + B[k - 1] * (2 ^ (k - 1))

\* The i32 whose bits are B[0..31].
from_bits(B) ==
    IF B[31] = 1 THEN (low_bits(B, 31) - 1073741824) - 1073741824 ELSE low_bits(B, 31)

\* b & 0x1f
and_0x1f(b) == low_bits([k \in 0..31 |-> bit(b, k)], 5)

\* a << s, for 0 <= s < 32: the bits that leave the word are lost.
shl(a, s) == from_bits([k \in 0..31 |-> IF k >= s THEN bit(a, k - s) ELSE 0])

\* a >> s on an i32, for 0 <= s < 32: the sign bit is copied in.
shr(a, s) == IF s = 31 THEN (IF a < 0 THEN -1 ELSE 0) ELSE a \div (2 ^ s)

\* a >> s on a u32, for 0 <= s < 32.
shr_u32(a, s) == IF s = 31 THEN 0 ELSE a \div (2 ^ s)

\* Opcode::LeftShift through bitwise_op: what is pushed for a (below) and b.
left_shift(a, b) == Number(shl(as_i32(to_number(a)), and_0x1f(as_i32(to_number(b)))))

\* Opcode::RightShift through bitwise_op.
right_shift(a, b) == Number(shr(as_i32(to_number(a)), and_0x1f(as_i32(to_number(b)))))

\* Opcode::UnsignedRightShift.
unsigned_right_shift(a, b) ==
    Number(shr_u32(as_u32(to_number(a)), and_0x1f(as_u32(to_number(b)))))

\* The steps of execute's loop: a call of execute runs on until it returns,
\* whereas the host may stop submitting inputs at any time.
Dispatch ==
    \/ LoadConst \/ LoadVar \/ StoreVar \/ Pop \/ AddOp \/ AndOp \/ OrOp
    \/ NewArray \/ NewObject \/ GetProperty \/ SetProperty \/ ArrayPush \/ ObjectSetProperty
    \/ CreateFunction \/ CallFunction \/ Jump \/ JumpIfFalse \/ Return \/ FallThrough

FairSpec == Init /\ [][Next]_vars /\ WF_vars(Dispatch)

(***************************************************************************)
(* The shift opcodes applied to two operands.                              *)
(***************************************************************************)
ShiftOperands == {Number(n) : n \in {-2147483647, -8, -1, 0, 1, 5, 1073741824, 2147483647}}

ShiftCounts == {Number(n) : n \in {-33, -32, -31, -1, 0, 1, 31, 32, 33, 63, 64}}

ShiftInit == Init /\ session = 1

LeftShift_call(a, b) ==
    /\ log = <<>>
    /\ log' = <<[op |-> "LeftShift", a |-> a, b |-> b, value |-> left_shift(a, b)]>>
    /\ UNCHANGED <<vm, host_chunk, engine, parked, shared, host_array>>

RightShift_call(a, b) ==
    /\ log = <<>>
    /\ log' = <<[op |-> "RightShift", a |-> a, b |-> b, value |-> right_shift(a, b)]>>
    /\ UNCHANGED <<vm, host_chunk, engine, parked, shared, host_array>>

UnsignedRightShift_call(a, b) ==
    /\ log = <<>>
    /\ log' = <<[op |-> "UnsignedRightShift", a |-> a, b |-> b,
                 value |-> unsigned_right_shift(a, b)]>>
    /\ UNCHANGED <<vm, host_chunk, engine, parked, shared, host_array>>

ShiftNext ==
    \/ \E a \in ShiftOperands, b \in ShiftCounts : LeftShift_call(a, b)
    \/ \E a \in ShiftOperands, b \in ShiftCounts : RightShift_call(a, b)
    \/ \E a \in ShiftOperands, b \in ShiftCounts : UnsignedRightShift_call(a, b)

ShiftSpec == ShiftInit /\ [][ShiftNext]_vars

(***************************************************************************)
(* A host with several engines (src/src/lib.rs, JSEngine::new).  The       *)
(* engines live in one process: their environments and objects are in the  *)
(* same heaps.  One engine is at work at a time (an engine is not Sync and *)
(* eval borrows it mutably until it returns); its VM fields are the        *)
(* variables stack and env, those of the others wait in parked.  The host  *)
(* gives the reference engine a sequence of inputs, then gives the subject *)
(* engine the same sequence, with inputs of its choice given to the        *)
(* remaining engines in between; log keeps each call and its outcome.      *)
(***************************************************************************)
\* The engines of the host.
Engines == 3

Reference == 1

Subject == 2

\* All engines of the host take their global environment from one static.
VM_new_env_static(e) == 1

\* The global environment of the e-th engine made: VM::new allocates one.
VM_new_env(e) == e

TwinInit ==
    /\ session \in {s \in 1..Len(Sessions) : Sessions[s] = TwinSession}
    /\ nevals = 0
    /\ input = 0
    /\ status = "idle"
    /\ result = [kind |-> "none"]
    /\ stack = <<>>
    /\ env = VM_new_env(Reference)
    /\ envs = [e \in 1..Engines |-> Environment_new]
    /\ objs = <<>>
    /\ frames = <<>>
    /\ hist = <<>>
    /\ topBound = EmptyMap
    /\ host_chunk = BytecodeChunk_new
    /\ log = <<>>
    /\ engine = Reference
    /\ parked = [e \in 1..Engines |-> [stack |-> <<>>, env |-> VM_new_env(e)]]
    /\ shared = <<>>
    /\ host_array = <<>>

\* The calls of the log made on engine e, oldest first.
calls_on(e) ==
    LET on_e(c) == c.engine = e
    IN  SelectSeq(log, on_e)

RECURSIVE shape(_, _)
\* A value as a host sees it: an object by its properties, a function by its
\* code and parameters, anything else as it is.
shape(O, v) ==
    CASE v.t = "Object" ->
             [t |-> "Object",
              properties |-> [key \in DOMAIN O[v.ref].properties |->
                                 shape(O, O[v.ref].properties[key].value)]]
      [] v.t = "Function" -> [t |-> "Function", chunk |-> v.chunk, params |-> v.params]
      [] OTHER -> v

\* What the host keeps of a call's result.
outcome(O, res) ==
    IF res.kind = "ok" THEN [kind |-> "ok", value |-> shape(O, res.value)] ELSE res

\* The host notes the outcome of the call that just returned.
Record ==
    /\ status = "idle"
    /\ Len(log) < nevals
    /\ log' = Append(log, [engine |-> engine, input |-> input,
                           outcome |-> outcome(objs, result)])
    /\ UNCHANGED <<vm, host_chunk, engine, parked, shared, host_array>>

\* The host turns to engine e, never back to the reference engine.
Switch(e) ==
    /\ status = "idle"
    /\ Len(log) = nevals
    /\ e # engine
    /\ e # Reference
    /\ engine' = e
    /\ parked' = [parked EXCEPT ![engine] = [stack |-> stack, env |-> env]]
    /\ stack' = parked[e].stack
    /\ env' = parked[e].env
    /\ UNCHANGED <<session, nevals, input, status, result, envs, objs, frames, hist, topBound,
                   host_chunk, log, shared, host_array>>

\* The host submits the i-th input to the engine at work; the subject engine
\* gets the inputs the reference engine got, in their order.
TwinEval(i) ==
    /\ Len(log) = nevals
    /\ engine = Subject =>
           /\ Len(calls_on(Subject)) < Len(calls_on(Reference))
           /\ i = calls_on(Reference)[Len(calls_on(Subject)) + 1].input
    /\ JSEngine_eval(i) \/ VM_execute(i)

TwinNext ==
    \/ \E i \in 1..Len(Sessions[session]) : TwinEval(i)
    \/ Record
    \/ \E e \in 1..Engines : Switch(e)
    \/ LoadConst
    \/ LoadVar
    \/ StoreVar
    \/ Pop
    \/ AddOp
    \/ AndOp
    \/ OrOp
    \/ NewArray
    \/ NewObject
    \/ GetProperty
    \/ SetProperty
    \/ ArrayPush
    \/ ObjectSetProperty
    \/ CreateFunction
    \/ CallFunction
    \/ Return
    \/ FallThrough

TwinSpec == TwinInit /\ [][TwinNext]_vars

(***************************************************************************)
(* The chunk's own methods, called by a host that builds a chunk by hand   *)
(* (src/src/compiler/mod.rs, BytecodeChunk).  No engine runs meanwhile.    *)
(***************************************************************************)
\* The values a host adds to a pool.
PoolValues ==
    { Undefined, Null, Boolean(TRUE), Number(0), Number(1), NaN, String("1"), String("a") }

ChunkInit == Init /\ session = 1

\* chunk.add_constant(value); the log keeps the value, the index returned
\* and the pool as it was before the call.
BytecodeChunk_add_constant(value) ==
    /\ Len(log) < MaxCalls
    /\ host_chunk' = add_constant(host_chunk, value)
    /\ log' = Append(log, [op |-> "add_constant", value |-> value,
                           ret |-> constant_index(host_chunk, value),
                           before |-> host_chunk.constants])
    /\ UNCHANGED <<vm, engine, parked, shared, host_array>>

ChunkNext == \E value \in PoolValues : BytecodeChunk_add_constant(value)

ChunkSpec == ChunkInit /\ [][ChunkNext]_vars

(***************************************************************************)
(* The object record's own methods, called by a host that builds objects   *)
(* by hand (src/src/value/jsobject.rs).  The host keeps every record in an *)
(* Rc<RefCell<JSObject>>, objs being the heap of them.  A record holds its *)
(* property map by reference (Rc): a clone of a record holds the same map, *)
(* and shared[r] names the map record r holds.  log keeps the last call.   *)
(***************************************************************************)
\* The keys, the descriptors and the value a host uses.
Keys == {"k"}

Descriptors ==
    { Property_data(Number(1)), Property_read_only(Number(1)), Property_sealed(Number(1)) }

Written == Number(2)

\* Everything but the object heap, the map each record holds, the last call
\* and whether the host is still running.
object_rest ==
    <<session, nevals, input, result, stack, env, envs, frames, hist, topBound,
      host_chunk, engine, parked, host_array>>

ObjectInit == Init /\ session = 1

\* The heap after record r's property map became that of obj: every record
\* holding the same map sees it.
write_shared(O, r, obj) ==
    [x \in DOMAIN O |->
        IF shared[x] = shared[r] THEN [O[x] EXCEPT !.properties = obj.properties] ELSE O[x]]

\* JSObject::new()
JSObject_new_call ==
    /\ status = "idle"
    /\ Len(objs) < MaxObjects
    /\ objs' = Append(objs, JSObject_new)
    /\ shared' = Append(shared, Len(objs) + 1)
    /\ log' = <<[op |-> "new", recv |-> Len(objs) + 1]>>
    /\ UNCHANGED <<status, object_rest>>

\* JSObject::with_prototype(Some(prototype))
JSObject_with_prototype_call(prototype) ==
    /\ status = "idle"
    /\ Len(objs) < MaxObjects
    /\ objs' = Append(objs, JSObject_with_prototype(prototype))
    /\ shared' = Append(shared, Len(objs) + 1)
    /\ log' = <<[op |-> "with_prototype", recv |-> Len(objs) + 1]>>
    /\ UNCHANGED <<status, object_rest>>

\* r.clone(): the derived Clone copies the Rc of the map and of the prototype.
JSObject_clone_call(r) ==
    /\ status = "idle"
    /\ Len(objs) < MaxObjects
    /\ objs' = Append(objs, objs[r])
    /\ shared' = Append(shared, shared[r])
    /\ log' = <<[op |-> "clone", recv |-> Len(objs) + 1]>>
    /\ UNCHANGED <<status, object_rest>>

\* r.set_prototype(prototype); 0 is None.
JSObject_set_prototype_call(r, prototype) ==
    /\ status = "idle"
    /\ objs' = [objs EXCEPT ![r].prototype = prototype]
    /\ log' = <<[op |-> "set_prototype", recv |-> r, proto |-> prototype]>>
    /\ UNCHANGED <<status, shared, object_rest>>

\* r.define_property(key, property)
JSObject_define_property_call(r, key, property) ==
    /\ status = "idle"
    /\ objs' = write_shared(objs, r, define_property(objs[r], key, property))
    /\ log' = <<[op |-> "define_property", recv |-> r, key |-> key, property |-> property]>>
    /\ UNCHANGED <<status, shared, object_rest>>

\* r.set(key, value)
JSObject_set_call(r, key, value) ==
    /\ status = "idle"
    /\ objs' = write_shared(objs, r, JSObject_set(objs[r], key, value).obj)
    /\ log' = <<[op |-> "set", recv |-> r, key |-> key, written |-> value,
                 ok |-> JSObject_set(objs[r], key, value).ok]>>
    /\ UNCHANGED <<status, shared, object_rest>>

\* r.delete(key)
JSObject_delete_call(r, key) ==
    /\ status = "idle"
    /\ objs' = write_shared(objs, r, JSObject_delete(objs[r], key).obj)
    /\ log' = <<[op |-> "delete", recv |-> r, key |-> key,
                 ok |-> JSObject_delete(objs[r], key).ok]>>
    /\ UNCHANGED <<status, shared, object_rest>>

\* r.get(key).  On a prototype chain that loops before key is found the
\* recursion never ends: the thread's stack overflows and the process aborts.
JSObject_get_call(r, key) ==
    /\ status = "idle"
    /\ IF get_returns(objs, r, key, Len(objs))
       THEN /\ log' = <<[op |-> "get", recv |-> r, key |-> key,
                         value |-> JSObject_get(objs, r, key)]>>
            /\ UNCHANGED status
       ELSE /\ log' = <<[op |-> "get", recv |-> r, key |-> key, overflow |-> TRUE]>>
            /\ status' = "panic"
    /\ UNCHANGED <<objs, shared, object_rest>>

ObjectNext ==
    \/ JSObject_new_call
    \/ \E prototype \in DOMAIN objs : JSObject_with_prototype_call(prototype)
    \/ \E r \in DOMAIN objs : JSObject_clone_call(r)
    \/ \E r \in DOMAIN objs : \E prototype \in 0..Len(objs) :
           JSObject_set_prototype_call(r, prototype)
    \/ \E r \in DOMAIN objs : \E key \in Keys : \E property \in Descriptors :
           JSObject_define_property_call(r, key, property)
    \/ \E r \in DOMAIN objs : \E key \in Keys : JSObject_set_call(r, key, Written)
    \/ \E r \in DOMAIN objs : \E key \in Keys : JSObject_delete_call(r, key)
    \/ \E r \in DOMAIN objs : \E key \in Keys : JSObject_get_call(r, key)

ObjectSpec == ObjectInit /\ [][ObjectNext]_vars

(***************************************************************************)
(* The array's own methods, called by a host on one JSArray                *)
(* (src/src/value/jsarray.rs).  log keeps the last call: the elements      *)
(* before it, its arguments and what it returned.                          *)
(***************************************************************************)
\* The values a host stores in the array.
ArrayValues == { Number(1), String("a") }

\* The indices a host writes at: those that keep the array within MaxLen,
\* and the largest usize.
ArrayIndices == 0..(MaxLen - 1) \cup {usize_MAX}

ArrayInit == Init /\ session = 1

JSArray_push_call(value) ==
    /\ status = "idle"
    /\ Len(host_array) < MaxLen
    /\ host_array' = JSArray_push(host_array, value)
    /\ log' = <<[op |-> "push", before |-> host_array, value |-> value]>>
    /\ UNCHANGED <<vm, host_chunk, engine, parked, shared>>

JSArray_pop_call ==
    /\ status = "idle"
    /\ host_array' = JSArray_pop(host_array).elements
    /\ log' = <<[op |-> "pop", before |-> host_array, ret |-> JSArray_pop(host_array).ret]>>
    /\ UNCHANGED <<vm, host_chunk, engine, parked, shared>>

JSArray_unshift_call(value) ==
    /\ status = "idle"
    /\ Len(host_array) < MaxLen
    /\ host_array' = JSArray_unshift(host_array, value)
    /\ log' = <<[op |-> "unshift", before |-> host_array, value |-> value]>>
    /\ UNCHANGED <<vm, host_chunk, engine, parked, shared>>

JSArray_shift_call ==
    /\ status = "idle"
    /\ host_array' = JSArray_shift(host_array).elements
    /\ log' = <<[op |-> "shift", before |-> host_array, ret |-> JSArray_shift(host_array).ret]>>
    /\ UNCHANGED <<vm, host_chunk, engine, parked, shared>>

\* arr.set(index, value) in a build with or without overflow checks; a
\* panic ends the host.
JSArray_set_call(index, value) ==
    /\ status = "idle"
    /\ \E overflow_checks \in BOOLEAN :
           LET done == JSArray_set(host_array, index, value, overflow_checks)
           IN  /\ host_array' = done.elements
               /\ status' = IF done.panic THEN "panic" ELSE status
               /\ log' = <<[op |-> "set", before |-> host_array, index |-> index,
                            written |-> value, panic |-> done.panic]>>
    /\ UNCHANGED <<session, nevals, input, result, stack, env, envs, objs, frames, hist,
                   topBound, host_chunk, engine, parked, shared>>

ArrayNext ==
    \/ \E value \in ArrayValues : JSArray_push_call(value)
    \/ JSArray_pop_call
    \/ \E value \in ArrayValues : JSArray_unshift_call(value)
    \/ JSArray_shift_call
    \/ \E index \in ArrayIndices : \E value \in ArrayValues : JSArray_set_call(index, value)

ArraySpec == ArrayInit /\ [][ArrayNext]_vars

(***************************************************************************)
(* The scanner, called by a host on a source text                          *)
(* (src/src/lexer/scanner.rs, Lexer::new and tokenize).  The host joins a  *)
(* source from up to MaxPieces pieces; a behaviour is one call, which log  *)
(* keeps with its pieces.                                                  *)
(***************************************************************************)
\* The pieces: 1  .  .0  0.2  a  space  newline  "a  "  //a  /*a*/  /*a
Pieces ==
    { <<"1">>, <<".">>, <<".", "0">>, <<"0", ".", "2">>, <<"a">>, <<" ">>, <<"\n">>,
      <<"\"", "a">>, <<"\"">>, <<"/", "/", "a">>, <<"/", "*", "a", "*", "/">>,
      <<"/", "*", "a">> }

\* The source a sequence of pieces spells.
RECURSIVE joined(_)
joined(pieces) == IF pieces = <<>> THEN <<>> ELSE Head(pieces) \o joined(Tail(pieces))

LexerInit == Init /\ session = 1

\* Lexer::new(source).tokenize()
Lexer_tokenize(pieces) ==
    /\ log = <<>>
    /\ log' = <<[op |-> "tokenize", pieces |-> pieces, source |-> joined(pieces),
                 outcome |-> tokenize(joined(pieces))]>>
    /\ UNCHANGED <<vm, host_chunk, engine, parked, shared, host_array>>

LexerNext ==
    \E n \in 0..MaxPieces : \E pieces \in [1..n -> Pieces] : Lexer_tokenize(pieces)

LexerSpec == LexerInit /\ [][LexerNext]_vars

(***************************************************************************)
(* The two equalities of a value, called by a host on a pair of values     *)
(* (src/src/value/jsvalue.rs); the VM calls them the same way for Eq,      *)
(* NotEq, StrictEq and StrictNotEq (src/src/vm/mod.rs:94-97).  A           *)
(* behaviour is one call, which log keeps.                                 *)
(***************************************************************************)
\* The values a host compares: every variant, both zeros, NaN, strings that
\* ToNumber maps to 0, to 1 and to NaN, two objects and two closures.
EqualsValues ==
    { Undefined, Null, Boolean(TRUE), Boolean(FALSE),
      Number(0), NegZero, Number(1), Number(2), NaN,
      String(""), String(" "), String("0"), String("1"), String("a"), String("true"),
      Object(1), Object(2),
      Function(BytecodeChunk_new, <<>>, 1), Function(BytecodeChunk_new, <<>>, 2) }

EqualsInit == Init /\ session = 1

\* a.strict_equals(&b)
JSValue_strict_equals_call(a, b) ==
    /\ log = <<>>
    /\ log' = <<[op |-> "strict_equals", a |-> a, b |-> b, ok |-> strict_equals(a, b)]>>
    /\ UNCHANGED <<vm, host_chunk, engine, parked, shared, host_array>>

\* a.abstract_equals(&b)
JSValue_abstract_equals_call(a, b) ==
    /\ log = <<>>
    /\ log' = <<[op |-> "abstract_equals", a |-> a, b |-> b, ok |-> abstract_equals(a, b)]>>
    /\ UNCHANGED <<vm, host_chunk, engine, parked, shared, host_array>>

EqualsNext ==
    \/ \E a, b \in EqualsValues : JSValue_strict_equals_call(a, b)
    \/ \E a, b \in EqualsValues : JSValue_abstract_equals_call(a, b)

EqualsSpec == EqualsInit /\ [][EqualsNext]_vars


(***************************************************************************)
(* The chunks of the functions the properties below speak about.           *)
(***************************************************************************)
\* The body of counter() and of the function it returns.
CounterChunk == finished(compile(CounterDecl.body))

IncChunk == CounterChunk.constants[2].chunk

\* The body of makeAdder(x) and of the function it returns.
MakeAdderChunk == finished(compile(MakeAdderDecl.body))

AdderChunk == MakeAdderChunk.constants[1].chunk

\* The input submitted last.
LastInput == Sessions[session][input]

\* The statement a source input ends with.
LastStatement == LastInput.body[Len(LastInput.body)]

Returned == status = "idle" /\ input # 0 /\ result.kind = "ok"

RECURSIVE chain(_, _)
\* The environments from e outward, e first.
chain(E, e) == IF E[e].outer = 0 THEN <<e>> ELSE <<e>> \o chain(E, E[e].outer)

(***************************************************************************)
(* C1.  Closure capture: the function counter() returns increments the     *)
(* local c of that call of counter and returns it.  Whenever c is a        *)
(* binding of the frame the function captured, its k-th completed          *)
(* invocation returned k.                                                  *)
(***************************************************************************)
IncCall(i) ==
    /\ hist[i][1].chunk = IncChunk
    /\ hist[i][1].env # 0
    /\ "c" \in DOMAIN envs[hist[i][1].env].bindings

C1_ClosureCounts ==
    \A i \in 1..Len(hist) :
        IncCall(i) =>
            hist[i][3] = Number(Cardinality({j \in 1..i : hist[j][1] = hist[i][1]}))

\* A third invocation of one counter closure has returned 3.
C1_Witness ==
    \E i \in 1..Len(hist) :
        /\ IncCall(i)
        /\ Cardinality({j \in 1..i : hist[j][1] = hist[i][1]}) = 3
        /\ hist[i][3] = Number(3)

(***************************************************************************)
(* C2.  CreateFunction captures the environment current when it executes:  *)
(* the functions two calls of makeAdder return capture two different       *)
(* frames, neither of them None, and a call of the function makeAdder(a)   *)
(* returned, with argument b, returns a + b.                               *)
(***************************************************************************)
C2_CapturesCurrentEnv ==
    /\ \A i, j \in 1..Len(hist) :
           (hist[i][1].chunk = MakeAdderChunk /\ hist[j][1].chunk = MakeAdderChunk /\ i # j)
               => /\ hist[i][3].env # 0
                  /\ hist[i][3].env # hist[j][3].env
    /\ \A i \in 1..Len(hist) :
           hist[i][1].chunk = AdderChunk =>
               \E j \in 1..(i - 1) :
                   /\ hist[j][1].chunk = MakeAdderChunk
                   /\ hist[j][3] = hist[i][1]
                   /\ hist[i][3] = Number(hist[j][2][1].n + hist[i][2][1].n)

\* makeAdder(5)(3) has returned 8 and makeAdder(10)(3) has returned 13.
C2_Witness ==
    \E i, j \in 1..Len(hist) :
        /\ hist[i][1].chunk = AdderChunk /\ hist[i][3] = Number(8)
        /\ hist[j][1].chunk = AdderChunk /\ hist[j][3] = Number(13)

(***************************************************************************)
(* C3.  Environment write discipline: a StoreVar(name) executed with frame *)
(* F current writes the popped value to name in the nearest frame of F's   *)
(* outer chain that binds name, or in F itself when none does, and changes *)
(* no other binding of any frame.                                          *)
(***************************************************************************)
\* The frame the discipline designates for a write of name with e current.
write_target(E, e, name) ==
    LET ch == chain(E, e)
        binders == {i \in 1..Len(ch) : name \in DOMAIN E[ch[i]].bindings}
    IN  IF binders = {} THEN e
        ELSE ch[CHOOSE i \in binders : \A j \in binders : i <= j]

C3_WriteDiscipline ==
    [][(AtOp("StoreVar") /\ stack # <<>>) =>
          LET target == write_target(envs, env, Name)
          IN  /\ DOMAIN envs' = DOMAIN envs
              /\ \A e \in DOMAIN envs :
                     /\ envs'[e].outer = envs[e].outer
                     /\ DOMAIN envs'[e].bindings =
                            DOMAIN envs[e].bindings \cup (IF e = target THEN {Name} ELSE {})
                     /\ \A n \in DOMAIN envs'[e].bindings :
                            envs'[e].bindings[n] =
                                IF e = target /\ n = Name
                                THEN stack[Len(stack)]
                                ELSE envs[e].bindings[n]]_vars

\* bump(1) has run after `let x = 10`: its `x = v` wrote the global x, its
\* `y = v` created y in the call's own frame.
C3_Witness ==
    /\ DOMAIN envs[GlobalEnv].bindings = {"x", "bump"}
    /\ envs[GlobalEnv].bindings["x"] = Number(1)
    /\ \E e \in DOMAIN envs :
           /\ e # GlobalEnv
           /\ DOMAIN envs[e].bindings = {"v", "y"}

(***************************************************************************)
(* C4.  After every call of eval returns, with a value or with an error,   *)
(* the VM is back in its top-level state: its environment is the global    *)
(* environment and its operand stack is empty.                             *)
(***************************************************************************)
C4_IdleAtTopLevel == status = "idle" => (env = GlobalEnv /\ stack = <<>>)

(***************************************************************************)
(* C5.  A binding written at top level is readable, with the last value    *)
(* stored in it, by every later top-level read of its name.                *)
(***************************************************************************)
C5_GlobalsPersist ==
    [][(AtOp("LoadVar") /\ Len(frames) = 1 /\ Name \in DOMAIN topBound) =>
          stack' = Append(stack, envs[topBound[Name]].bindings[Name])]_vars

(***************************************************************************)
(* C6.  When a callee completes with a value, the VM's environment is the  *)
(* one current before the CallFunction, and the operand stack is the       *)
(* caller's stack before the call without the callee and its n arguments   *)
(* and with the result pushed; nothing the callee left on its own stack    *)
(* shows.                                                                  *)
(***************************************************************************)
\* A callee activation is about to return a value.
Completing ==
    /\ status = "running"
    /\ Len(frames) > 1
    /\ \/ Top.pc >= Len(Top.chunk.code)
       \/ AtOp("Return") /\ stack # <<>>

C6_CallRestores ==
    [][Completing =>
          /\ env' = Top.pre_env
          /\ stack' = Append(SubSeq(Top.pre_stack, 1, Len(Top.pre_stack) - Len(Top.args) - 1),
                             IF stack = <<>> THEN Undefined ELSE stack[Len(stack)])]_vars

\* The residue callee has returned 8 to a caller that held 1: the caller's
\* stack is 1, 8 and the 7 the callee left behind is gone.
C6_Witness ==
    /\ status = "running"
    /\ hist # <<>>
    /\ hist[Len(hist)][1].chunk = ResidueBody
    /\ stack = <<Number(1), Number(8)>>
    /\ env = GlobalEnv

(***************************************************************************)
(* C7.  A read, inside a callee, of a formal parameter that received no    *)
(* argument (and that nothing has bound in the callee's frame since)       *)
(* yields Undefined.                                                       *)
(***************************************************************************)
C7_MissingArgUndefined ==
    [][(/\ AtOp("LoadVar")
        /\ Len(frames) > 1
        /\ Name \notin DOMAIN envs[env].bindings
        /\ \E i \in (Len(Top.args) + 1)..Len(Top.func.params) : Top.func.params[i] = Name)
          => stack' = Append(stack, Undefined)]_vars

(***************************************************************************)
(* C8.  CallFunction(n) binds the arguments in source order in a fresh     *)
(* frame: argument i (0-based) to the i-th formal parameter when there is  *)
(* one and to arg<i> otherwise, a later argument winning a name it shares  *)
(* with an earlier one; the frame binds nothing else, and no existing      *)
(* frame is changed.                                                       *)
(***************************************************************************)
C8_BindsArguments ==
    [][(/\ AtOp("CallFunction")
        /\ Len(stack) >= Operand + 1
        /\ stack[Len(stack) - Operand].t = "Function")
          => LET n == Operand
                 params == stack[Len(stack) - n].params
                 argument(i) == stack[Len(stack) - n + 1 + i]
                 name(i) == IF i < Len(params) THEN params[i + 1] ELSE "arg" \o ToString(i)
             IN  /\ env' \notin DOMAIN envs
                 /\ DOMAIN envs' = DOMAIN envs \cup {env'}
                 /\ \A e \in DOMAIN envs : envs'[e] = envs[e]
                 /\ DOMAIN envs'[env'].bindings = {name(i) : i \in 0..(n - 1)}
                 /\ \A i \in 0..(n - 1) :
                        (\A j \in (i + 1)..(n - 1) : name(j) # name(i))
                            => envs'[env'].bindings[name(i)] = argument(i)]_vars

\* add(2, 3, 4) has been called: a = 2, b = 3 and the surplus arg2 = 4.
C8_Witness ==
    \E e \in DOMAIN envs :
        /\ e # GlobalEnv
        /\ DOMAIN envs[e].bindings = {"a", "b", "arg2"}
        /\ envs[e].bindings["a"] = Number(2)
        /\ envs[e].bindings["b"] = Number(3)
        /\ envs[e].bindings["arg2"] = Number(4)

(***************************************************************************)
(* C9.  A program that executes without error and ends with a declaration  *)
(* (of a variable or of a function) makes eval return Undefined, whatever  *)
(* evals came before on the engine.                                        *)
(***************************************************************************)
C9_DeclarationYieldsUndefined ==
    (/\ Returned
     /\ LastInput.kind = "source"
     /\ LastStatement.k \in {"VariableDeclaration", "FunctionDeclaration"})
        => result.value = Undefined

(***************************************************************************)
(* C10.  The value of an array literal of n literals is an Object whose    *)
(* property ToString(i) is the i-th element, for every i < n, and whose    *)
(* length property is the Number n.                                        *)
(***************************************************************************)
C10_ArrayLiteralValue ==
    (/\ Returned
     /\ LastInput.kind = "source"
     /\ LastStatement.k = "Expression"
     /\ LastStatement.expr.k = "ArrayLiteral")
        => LET elements == LastStatement.expr.elements
           IN  /\ result.value.t = "Object"
               /\ \A i \in 1..Len(elements) :
                      JSObject_get(objs, result.value.ref, ToString(i - 1)) = elements[i].value
               /\ JSObject_get(objs, result.value.ref, "length") = Number(Len(elements))

(***************************************************************************)
(* C11.  Property write/read round trip.  A SetProperty of value v under   *)
(* key k on an Object o stores v as o's property ToString(k), pushes o     *)
(* back and changes no other property of o and no other object; a          *)
(* GetProperty of key k2 on o pushes the value stored under ToString(k2),  *)
(* whichever reference to o the program holds; and a stored property       *)
(* changes only by an instruction that writes it.                          *)
(***************************************************************************)
\* The value stored in object r under key (Undefined when there is none).
stored(O, r, key) ==
    IF key \in DOMAIN O[r].properties THEN O[r].properties[key].value ELSE Undefined

C11_PropertyRoundTrip ==
    [][/\ (AtOp("SetProperty") /\ Len(stack) >= 3 /\ stack[Len(stack) - 2].t = "Object") =>
             LET o == stack[Len(stack) - 2]
                 k == to_string(stack[Len(stack) - 1])
                 v == stack[Len(stack)]
             IN  /\ stack' = Append(SubSeq(stack, 1, Len(stack) - 3), o)
                 /\ DOMAIN objs' = DOMAIN objs
                 /\ DOMAIN objs'[o.ref].properties = DOMAIN objs[o.ref].properties \cup {k}
                 /\ stored(objs', o.ref, k) = v
                 /\ \A r \in DOMAIN objs : \A key \in DOMAIN objs[r].properties :
                        (r # o.ref \/ key # k) => stored(objs', r, key) = stored(objs, r, key)
       /\ (AtOp("GetProperty") /\ Len(stack) >= 2 /\ stack[Len(stack) - 1].t = "Object") =>
             stack' = Append(SubSeq(stack, 1, Len(stack) - 2),
                             stored(objs, stack[Len(stack) - 1].ref, to_string(stack[Len(stack)])))
       /\ \A r \in DOMAIN objs :
             objs'[r] # objs[r] =>
                 \/ AtOp("SetProperty") /\ stack[Len(stack) - 2] = Object(r)
                 \/ AtOp("ArrayPush") /\ stack[Len(stack) - 2] = Object(r)
                 \/ AtOp("ObjectSetProperty") /\ stack[Len(stack) - 2] = Object(r)]_vars

\* After `let p = o`, `o[1] = 7; p["1"]` has returned 7 while q is as it was made.
C11_Witness ==
    /\ Returned
    /\ LastInput = PropertiesSession[2]
    /\ result.value = Number(7)
    /\ \E r, r2 \in DOMAIN objs :
           /\ r # r2
           /\ DOMAIN objs[r].properties = {"a", "1"}
           /\ DOMAIN objs[r2].properties = {"a"}
           /\ stored(objs, r2, "a") = Number(5)

(***************************************************************************)
(* C12.  Constant interning, as stated: after any sequence of add_constant *)
(* calls no two entries of the pool are equal, each call returned an index *)
(* whose entry equals the value added (the index of the equal entry when   *)
(* there was one, the new last index otherwise), and the entry at an index *)
(* once returned never changes.  Equality is the program's ==, which is    *)
(* StrictEquals on the primitive variants.                                 *)
(***************************************************************************)
\* The pool before the c-th call of the log, and after it.
pool_before(c) == log[c].before

pool_after(c) == IF c = Len(log) THEN host_chunk.constants ELSE log[c + 1].before

TypeMismatch ==
    \/ /\ AtOp("CallFunction")
       /\ Len(stack) >= Operand + 1
       /\ stack[Len(stack) - Operand].t # "Function"
    \/ /\ AtOp("SetProperty")
       /\ Len(stack) >= 3
       /\ stack[Len(stack) - 2].t # "Object"
    \/ /\ AtOp("ArrayPush") \/ AtOp("ObjectSetProperty")
       /\ Len(stack) >= 2
       /\ Len(stack) = 2 \/ stack[Len(stack) - 2].t # "Object"
    \/ /\ AtOp("CreateFunction")
       /\ Operand < Len(Top.chunk.constants)
       /\ Top.chunk.constants[Operand + 1].t # "Function"

C13_TypeErrorsHalt ==
    [][TypeMismatch =>
          /\ status' = "idle"
          /\ result' = Err("TypeError")
          /\ frames' = <<>>
          /\ envs' = envs
          /\ objs' = objs]_vars

\* The chunk CreateFunction(number); StoreVar f has returned TypeError and f
\* was never stored.
C13_Witness ==
    /\ status = "idle"
    /\ input # 0
    /\ LastInput = RawFaultsSession[3]
    /\ result = Err("TypeError")
    /\ \A e \in DOMAIN envs : "f" \notin DOMAIN envs[e].bindings

(***************************************************************************)
(* C14.  A LoadVar of a name that no frame of the current chain binds      *)
(* pushes Undefined and the run goes on; a GetProperty on a receiver that  *)
(* is no Object pushes Undefined and the run goes on; and no call ever     *)
(* returns ReferenceError or RangeError.                                   *)
(***************************************************************************)
C14_NoReferenceError ==
    /\ [][/\ (AtOp("LoadVar")
               /\ \A i \in 1..Len(chain(envs, env)) :
                      Name \notin DOMAIN envs[chain(envs, env)[i]].bindings)
                 => /\ stack' = Append(stack, Undefined)
                    /\ status' = "running"
          /\ (AtOp("GetProperty") /\ Len(stack) >= 2 /\ stack[Len(stack) - 1].t # "Object")
                => /\ stack' = Append(SubSeq(stack, 1, Len(stack) - 2), Undefined)
                   /\ status' = "running"]_vars
    /\ [](result.kind = "err" => result.category \notin {"ReferenceError", "RangeError"})

\* `o.a + n` on a fresh engine: o and n are bound nowhere, o.a is a property
\* of Undefined, and the sum of two Undefined is NaN.
C14_Witness ==
    /\ Returned
    /\ nevals = 1
    /\ LastInput = FaultsSession[3]
    /\ result.value = NaN

(***************************************************************************)
(* C15.  No rollback on failure: the step at which an instruction fails    *)
(* leaves every binding and every object property as the instructions      *)
(* before it wrote them, and so does the start of the next call, so that   *)
(* later programs read what a failed program wrote.                        *)
(***************************************************************************)
C15_NoRollback ==
    [][/\ (status = "running" /\ result'.kind = "err") => (envs' = envs /\ objs' = objs)
       /\ (status = "idle" /\ status' = "running") => (envs' = envs /\ objs' = objs)]_vars

\* `o.a + n` has returned 6: n = 5 and o.a = 1 were written by the two
\* programs that failed, n = 6 and o.a = 3 by neither.
C15_Witness ==
    /\ Returned
    /\ LastInput = FaultsSession[3]
    /\ result.value = Number(6)

(***************************************************************************)
(* C18.  JSObject::set on a key whose own property is not writable returns *)
(* false and leaves the value as it was, as a get right after shows; in    *)
(* every other case it returns true and a get of the key on the same       *)
(* object right after returns the value set.                               *)
(***************************************************************************)
C18_SetReadOnly ==
    [][(log' # <<>> /\ log'[1].op = "set") =>
          LET c == log'[1]
              own == objs[c.recv].properties
          IN  IF c.key \in DOMAIN own /\ ~own[c.key].writable
              THEN /\ c.ok = FALSE
                   /\ objs' = objs
                   /\ JSObject_get(objs', c.recv, c.key) = own[c.key].value
              ELSE /\ c.ok = TRUE
                   /\ JSObject_get(objs', c.recv, c.key) = c.written]_vars

\* A set on a read-only property has returned false, the value still 1.
C18_Witness ==
    /\ log # <<>>
    /\ log[1].op = "set"
    /\ log[1].ok = FALSE
    /\ stored(objs, log[1].recv, log[1].key) = Number(1)

(***************************************************************************)
(* C19.  JSObject::delete on an own property that is not configurable      *)
(* returns false and the property stays; on a configurable own property it *)
(* returns true and the key is no own property afterwards; on a key that   *)
(* is no own property it returns false and nothing changes.                *)
(***************************************************************************)
C19_DeleteNonConfigurable ==
    [][(log' # <<>> /\ log'[1].op = "delete") =>
          LET c == log'[1]
              own == objs[c.recv].properties
          IN  IF c.key \in DOMAIN own
              THEN IF own[c.key].configurable
                   THEN /\ c.ok = TRUE
                        /\ ~has_own_property(objs'[c.recv], c.key)
                   ELSE /\ c.ok = FALSE
                        /\ objs' = objs
              ELSE /\ c.ok = FALSE
                   /\ objs' = objs]_vars

\* A delete of a non-configurable property has returned false, the property
\* still there; the record's prototype has the key as well.
C19_Witness ==
    /\ log # <<>>
    /\ log[1].op = "delete"
    /\ log[1].ok = FALSE
    /\ has_own_property(objs[log[1].recv], log[1].key)

(***************************************************************************)
(* C20.  JSObject::get returns the value of the nearest definition of the  *)
(* key along the prototype chain, the receiver first, and Undefined when   *)
(* no object of the chain has the key; set and delete change the receiver  *)
(* only: the properties of every prototype of the receiver are after the   *)
(* call what they were before; and a key found only on a prototype is no   *)
(* own property of the receiver.                                           *)
(***************************************************************************)
RECURSIVE nearest(_, _, _, _)
\* The value of key on the first of r, r's prototype, its prototype, ... that
\* has key, among the first n + 1 of them; Undefined when none has.
nearest(O, r, key, n) ==
    IF key \in DOMAIN O[r].properties THEN O[r].properties[key].value
    ELSE IF O[r].prototype = 0 \/ n = 0 THEN Undefined
         ELSE nearest(O, O[r].prototype, key, n - 1)

RECURSIVE prototypes(_, _, _)
\* r's prototype, that one's prototype, ...: the first n of them.
prototypes(O, r, n) ==
    IF O[r].prototype = 0 \/ n = 0 THEN {}
    ELSE {O[r].prototype} \cup prototypes(O, O[r].prototype, n - 1)

C20_PrototypeLookup ==
    [][log' # <<>> =>
          LET c == log'[1]
          IN  /\ c.op = "get" =>
                     /\ "overflow" \notin DOMAIN c
                     /\ c.value = nearest(objs, c.recv, c.key, Len(objs))
              /\ c.op \in {"set", "delete"} =>
                     \A p \in prototypes(objs, c.recv, Len(objs)) :
                         objs'[p].properties = objs[p].properties
              /\ c.op = "get" =>
                     (\A p \in DOMAIN objs :
                          (c.key \notin DOMAIN objs[p].properties
                           /\ nearest(objs, p, c.key, Len(objs)) # Undefined)
                              => ~has_own_property(objs[p], c.key))]_vars

(***************************************************************************)
(* C16.  Determinism: a sequence of inputs submitted to two fresh engines  *)
(* yields the same sequence of outcomes on both, values compared as a host *)
(* sees them and errors by category.                                       *)
(***************************************************************************)
\* The subject engine's k-th call got the input and gave the outcome of the
\* reference engine's k-th call.
Agree(k) ==
    /\ calls_on(Subject)[k].input = calls_on(Reference)[k].input
    /\ calls_on(Subject)[k].outcome = calls_on(Reference)[k].outcome

\* Some call of the log was made on an engine other than the two compared.
BystanderRan == \E c \in 1..Len(log) : log[c].engine \notin {Reference, Subject}

C17_EnginesIsolated ==
    BystanderRan => \A k \in 1..Len(calls_on(Subject)) : Agree(k)

\* A third engine was given the counter and made inc; the subject engine,
\* given the program that calls inc after that, still finds inc unbound.
C17_Witness ==
    \E b, c \in 1..Len(log) :
        /\ b < c
        /\ log[b].engine \notin {Reference, Subject}
        /\ log[b].input = 1
        /\ log[b].outcome.kind = "ok"
        /\ log[c].engine = Subject
        /\ log[c].input = 2
        /\ log[c].outcome = Err("TypeError")


(***************************************************************************)
(* C21.  After every push, pop, unshift, shift and set on a JSArray,       *)
(* length() and get(i) are those of the reference sequence: push appends,  *)
(* pop removes and returns the last element, unshift prepends, shift       *)
(* removes and returns the first, set(i, v) beyond the end pads with       *)
(* Undefined to length i + 1 and then writes; pop and shift on an empty    *)
(* array return Undefined; get past the end is Undefined.                  *)
(***************************************************************************)
\* The reference sequence after the logged call.
reference(c) ==
    CASE c.op = "push" -> c.before \o <<c.value>>
      [] c.op = "unshift" -> <<c.value>> \o c.before
      [] c.op = "pop" ->
            [i \in 1..(IF c.before = <<>> THEN 0 ELSE Len(c.before) - 1) |-> c.before[i]]
      [] c.op = "shift" ->
            [i \in 1..(IF c.before = <<>> THEN 0 ELSE Len(c.before) - 1) |-> c.before[i + 1]]
      [] c.op = "set" ->
            [i \in 1..(IF c.index + 1 > Len(c.before) THEN c.index + 1 ELSE Len(c.before)) |->
                IF i = c.index + 1 THEN c.written
                ELSE IF i <= Len(c.before) THEN c.before[i] ELSE Undefined]

\* What the reference returns for the logged pop or shift.
reference_ret(c) ==
    IF c.before = <<>> THEN Undefined
    ELSE IF c.op = "pop" THEN c.before[Len(c.before)] ELSE c.before[1]

C21_ArrayRefinement ==
    \A n \in DOMAIN log :
        /\ JSArray_length(host_array) = Len(reference(log[n]))
        /\ \A i \in 0..usize_MAX :
               JSArray_get(host_array, i) =
                   (IF i < Len(reference(log[n])) THEN reference(log[n])[i + 1] ELSE Undefined)
        /\ log[n].op \in {"pop", "shift"} => log[n].ret = reference_ret(log[n])
        /\ log[n].op = "set" => ~log[n].panic

(***************************************************************************)
(* C22.  Short-circuit identity: And pops b then a and pushes a itself     *)
(* when ToBoolean(a) is false and b otherwise; Or pushes a itself when     *)
(* ToBoolean(a) is true and b otherwise.  The value pushed is one of the   *)
(* two operands unchanged (same variant, payload and reference), never a   *)
(* coerced Boolean.                                                        *)
(***************************************************************************)
\* The truth values the specification gives (section 4, ToBoolean).
Falsy(v) ==
    \/ v \in {Undefined, Null, Boolean(FALSE), Number(0), NaN, String("")}

\* An And or an Or with both operands on the stack is the next instruction.
AtLogic(op) == AtOp(op) /\ Len(stack) >= 2

C22_ShortCircuitIdentity ==
    [][ /\ AtLogic("And") =>
              LET a == stack[Len(stack) - 1]
                  b == stack[Len(stack)]
              IN  /\ Len(stack') = Len(stack) - 1
                  /\ stack'[Len(stack')] = (IF Falsy(a) THEN a ELSE b)
                  /\ SubSeq(stack', 1, Len(stack') - 1) = SubSeq(stack, 1, Len(stack) - 2)
        /\ AtLogic("Or") =>
              LET a == stack[Len(stack) - 1]
                  b == stack[Len(stack)]
              IN  /\ Len(stack') = Len(stack) - 1
                  /\ stack'[Len(stack')] = (IF Falsy(a) THEN b ELSE a)
                  /\ SubSeq(stack', 1, Len(stack') - 1) = SubSeq(stack, 1, Len(stack) - 2)
      ]_vars

\* `z || o` returned the very object o is bound to, and `("" && o) || f`
\* the closure f is bound to.
C22_Witness ==
    /\ Sessions[session] = LogicSession
    /\ status = "idle"
    /\ \/ /\ input = 3
          /\ result.kind = "ok"
          /\ result.value.t = "Object"
          /\ <<result.value>> = Environment_get(envs, GlobalEnv, "o")
       \/ /\ input = 4
          /\ result.kind = "ok"
          /\ result.value.t = "Function"
          /\ <<result.value>> = Environment_get(envs, GlobalEnv, "f")

(***************************************************************************)
(* C23.  strict_equals is false for values of different variants; NaN is   *)
(* unequal to every Number, itself included, and +0 equals -0; Strings     *)
(* compare by content; an Object or a Function is strictly equal to        *)
(* another value exactly when both are the same reference, so every        *)
(* Object is strictly equal to itself.                                     *)
(***************************************************************************)
C23_StrictEquality ==
    \A n \in DOMAIN log :
        log[n].op = "strict_equals" =>
            LET a == log[n].a
                b == log[n].b
            IN  /\ a.t # b.t => ~log[n].ok
                /\ a.t = "Number" /\ b.t = "Number" =>
                       (log[n].ok <=> ~is_nan(a) /\ ~is_nan(b) /\ a.n = b.n)
                /\ a.t = "String" /\ b.t = "String" => (log[n].ok <=> a.s = b.s)
                /\ a.t \in {"Object", "Function"} /\ a.t = b.t => (log[n].ok <=> a = b)

(***************************************************************************)
(* C24.  Abstract equality: on operands of one variant it is strict        *)
(* equality; Null and Undefined equal each other in both orders; a Number  *)
(* and a String are equal exactly when the Number equals ToNumber of the   *)
(* String; a Boolean on either side is replaced by its ToNumber and the    *)
(* comparison repeated; every other pair of different variants is unequal  *)
(* (null == 0, undefined == false, null == "" are false).  The relation    *)
(* is symmetric and its evaluation ends for every pair.                    *)
(***************************************************************************)
\* v with a Boolean replaced by its ToNumber.
unboxed(v) == IF v.t = "Boolean" THEN (IF v.b THEN Number(1) ELSE Number(0)) ELSE v

\* The claim's relation on two values neither of which is a Boolean.
loosely_equal(a, b) ==
    CASE a.t = b.t -> strict_equals(a, b)
      [] {a.t, b.t} = {"Null", "Undefined"} -> TRUE
      [] a.t = "Number" /\ b.t = "String" -> f64_eq(a, to_number(b))
      [] a.t = "String" /\ b.t = "Number" -> f64_eq(b, to_number(a))
      [] OTHER -> FALSE

C24_AbstractEquality ==
    \A n \in DOMAIN log :
        log[n].op = "abstract_equals" =>
            LET a == log[n].a
                b == log[n].b
            IN  /\ a.t = b.t => (log[n].ok <=> strict_equals(a, b))
                /\ a.t # b.t => (log[n].ok <=> loosely_equal(unboxed(a), unboxed(b)))
                /\ log[n].ok <=> abstract_equals(b, a)
                /\ /\ {a, b} = {Null, Number(0)} => ~log[n].ok
                   /\ {a, b} = {Undefined, Boolean(FALSE)} => ~log[n].ok
                   /\ {a, b} = {Null, String("")} => ~log[n].ok

\* true == "1" was evaluated and is true; so was "1" == true.
C24_Witness ==
    \E n \in DOMAIN log :
        /\ log[n].op = "abstract_equals"
        /\ {log[n].a, log[n].b} = {Boolean(TRUE), String("1")}
        /\ log[n].ok

(***************************************************************************)
(* C25.  Unterminated literals are syntax errors: tokenize returns         *)
(* SyntaxError for every string literal without a closing quote, whether   *)
(* a newline or the end of the input cuts it off, and for every block      *)
(* comment without a closing star-slash.                                   *)
(***************************************************************************)
\* The positions of a character in a source.
places(source, ch) == {i \in DOMAIN source : source[i] = ch}

\* A source with one quote and no comment: the quote opens a string literal
\* that nothing closes.
OpenString(source) ==
    /\ Cardinality(places(source, "\"")) = 1
    /\ places(source, "/") = {}

\* A source with one slash, followed by a star, and no quote: the two open
\* a block comment that nothing closes.
OpenComment(source) ==
    /\ Cardinality(places(source, "/")) = 1
    /\ \E i \in places(source, "/") : i < Len(source) /\ source[i + 1] = "*"
    /\ places(source, "\"") = {}

C25_UnterminatedIsSyntaxError ==
    \A n \in DOMAIN log :
        log[n].op = "tokenize" /\ (OpenString(log[n].source) \/ OpenComment(log[n].source)) =>
            /\ log[n].outcome.r = "err"
            /\ log[n].outcome.category = "SyntaxError"

(***************************************************************************)
(* C26.  Comments are skipped: a line comment (up to the end of its line   *)
(* or of the input) or a closed block comment between two tokens, with     *)
(* any white space around it, leaves the sequence of token kinds what it   *)
(* is without the comment, ending in Eof, and tokenize returns without     *)
(* failure.                                                                *)
(***************************************************************************)
LineComment == <<"/", "/", "a">>

BlockComment == <<"/", "*", "a", "*", "/">>

\* Pieces of tokens and white space with comments among them, every line
\* comment running to a newline or to the end.
Commented(pieces) ==
    /\ \A i \in DOMAIN pieces :
           pieces[i] \in {<<"1">>, <<".">>, <<"a">>, <<" ">>, <<"\n">>, LineComment, BlockComment}
    /\ \E i \in DOMAIN pieces : pieces[i] \in {LineComment, BlockComment}
    /\ \A i \in DOMAIN pieces :
           pieces[i] = LineComment => i = Len(pieces) \/ pieces[i + 1] = <<"\n">>

\* The pieces with a space in the place of every comment.
uncommented(pieces) ==
    [i \in DOMAIN pieces |->
        IF pieces[i] \in {LineComment, BlockComment} THEN <<" ">> ELSE pieces[i]]

kinds(tokens) == [i \in DOMAIN tokens |-> tokens[i].kind]

C26_CommentsSkipped ==
    \A n \in DOMAIN log :
        log[n].op = "tokenize" /\ Commented(log[n].pieces) =>
            /\ log[n].outcome.r = "ok"
            /\ kinds(log[n].outcome.tokens) =
                   kinds(tokenize(joined(uncommented(log[n].pieces))).tokens)
            /\ log[n].outcome.tokens[Len(log[n].outcome.tokens)].kind = "Eof"

(***************************************************************************)
(* C27.  A number literal holds at most one '.': a '.' right after a       *)
(* number literal that has a fraction part is a Dot token of its own and   *)
(* the digits after it a new number literal, so .0.1 is the number .0,     *)
(* Dot, the number 1, and 0.2.1 is the number 0.2, Dot, the number 1.      *)
(***************************************************************************)
C27_OneDotPerNumber ==
    \A n \in DOMAIN log :
        /\ log[n].op = "tokenize" /\ log[n].source = <<".", "0", ".", "1">> =>
               /\ log[n].outcome.r = "ok"
               /\ log[n].outcome.tokens =
                      << [kind |-> "Number", text |-> ".0"], [kind |-> "Dot", text |-> ""],
                         [kind |-> "Number", text |-> "1"], [kind |-> "Eof", text |-> ""] >>
        /\ log[n].op = "tokenize" /\ log[n].source = <<"0", ".", "2", ".", "1">> =>
               /\ log[n].outcome.r = "ok"
               /\ log[n].outcome.tokens =
                      << [kind |-> "Number", text |-> "0.2"], [kind |-> "Dot", text |-> ""],
                         [kind |-> "Number", text |-> "1"], [kind |-> "Eof", text |-> ""] >>

(***************************************************************************)
(* C28.  In every chunk the compiler produces, nested function chunks      *)
(* included, each LoadConst(i) and CreateFunction(i) has i within that     *)
(* chunk's constant pool, and each CreateFunction(i) designates a Function *)
(* constant whose parameter list is the one declared at that site; so      *)
(* running compiled code never reads a constant out of bounds and never    *)
(* raises the TypeError of a CreateFunction on a constant that is no       *)
(* function.                                                               *)
(***************************************************************************)
RECURSIVE sites_of_expression(_)
RECURSIVE sites_of_all(_, _)

\* The function sites of the expressions es[i..], in source order.
sites_of_all(es, i) ==
    IF i > Len(es) THEN <<>> ELSE sites_of_expression(es[i]) \o sites_of_all(es, i + 1)

\* The function sites directly in an expression (not those inside the
\* bodies of its functions), in the order the expression evaluates them.
sites_of_expression(e) ==
    CASE e.k \in {"Literal", "Identifier"} -> <<>>
      [] e.k = "Binary" -> sites_of_all(<<e.left, e.right>>, 1)
      [] e.k = "Unary" -> sites_of_expression(e.arg)
      [] e.k = "Assignment" ->
            IF e.left.k = "MemberAccess"
            THEN sites_of_all(<<e.left.object, e.left.property, e.right>>, 1)
            ELSE sites_of_expression(e.right)
      [] e.k = "ArrayLiteral" -> sites_of_all(e.elements, 1)
      [] e.k = "ObjectLiteral" ->
            sites_of_all([j \in DOMAIN e.properties |-> e.properties[j][2]], 1)
      [] e.k = "MemberAccess" -> sites_of_all(<<e.object, e.property>>, 1)
      [] e.k = "Function" -> <<[params |-> e.params, body |-> e.body]>>
      [] e.k = "Call" -> sites_of_all(<<e.callee>> \o e.args, 1)

\* The function sites directly in the statements body[i..].
RECURSIVE sites_of_body(_, _)
sites_of_body(body, i) ==
    IF i > Len(body) THEN <<>>
    ELSE (CASE body[i].k = "Expression" -> sites_of_expression(body[i].expr)
            [] body[i].k = "VariableDeclaration" -> sites_of_all(body[i].init, 1)
            [] body[i].k = "Return" -> sites_of_all(body[i].arg, 1)
            [] body[i].k = "FunctionDeclaration" ->
                  <<[params |-> body[i].params, body |-> body[i].body]>>)
         \o sites_of_body(body, i + 1)

IsCreateFunction(instruction) == instruction.op = "CreateFunction"

\* chunk is what the claim says of the chunk compiled from body.
RECURSIVE Conforms(_, _)
Conforms(body, chunk) ==
    LET sites == sites_of_body(body, 1)
        creates == SelectSeq(chunk.code, IsCreateFunction)
    IN  /\ \A n \in DOMAIN chunk.code :
               chunk.code[n].op \in {"LoadConst", "CreateFunction"} =>
                   chunk.code[n].idx < Len(chunk.constants)
        /\ Len(creates) = Len(sites)
        /\ \A n \in DOMAIN creates :
               /\ chunk.constants[creates[n].idx + 1].t = "Function"
               /\ chunk.constants[creates[n].idx + 1].params = sites[n].params
               /\ Conforms(sites[n].body, chunk.constants[creates[n].idx + 1].chunk)

\* The engine is running, or has run, a program it compiled itself.
Compiled == input # 0 /\ Sessions[session][input].kind = "source"

C28_ConstantIndicesInBounds ==
    Compiled =>
        /\ compile(Sessions[session][input].body).err = "" =>
               Conforms(Sessions[session][input].body,
                        finished(compile(Sessions[session][input].body)))
        /\ status # "panic"
        /\ AtOp("LoadConst") => Operand < Len(Top.chunk.constants)
        /\ AtOp("CreateFunction") =>
               /\ Operand < Len(Top.chunk.constants)
               /\ Top.chunk.constants[Operand + 1].t = "Function"

\* The counter's body, running as a callee, is about to create its closure.
C28_Witness ==
    /\ Compiled
    /\ Len(frames) = 2
    /\ AtOp("CreateFunction")
    /\ Top.chunk.constants[Operand + 1].params = <<>>
    /\ Top.func.params = <<>>

(***************************************************************************)
(* C29.  Stack discipline of compiled code: in every activation of execute *)
(* on a chunk the compiler produced, each compiled expression leaves       *)
(* exactly one more value on the operand stack than it found, each         *)
(* compiled statement other than the last expression statement leaves the  *)
(* depth of the stack unchanged, every Return finds at least one value,    *)
(* and no instruction pops from an empty stack, so that eval never returns *)
(* the InternalError of a stack underflow.                                 *)
(***************************************************************************)
RECURSIVE bodies_in(_)
\* body and the bodies of the functions in it, at any depth.
bodies_in(body) ==
    {body} \cup UNION {bodies_in(sites_of_body(body, 1)[n].body) :
                          n \in DOMAIN sites_of_body(body, 1)}

\* The programs of the engine's session and the function bodies in them.
SessionBodies ==
    UNION {bodies_in(Sessions[session][i].body) :
             i \in {j \in DOMAIN Sessions[session] : Sessions[session][j].kind = "source"}}

\* The bodies the activation f's chunk is compiled from.
bodies_of(f) ==
    {b \in SessionBodies : compile(b).err = "" /\ finished(compile(b)) = frames[f].chunk}

RECURSIVE compiled_upto(_, _)
\* The compiler's chunk when the first k statements of body are compiled.
compiled_upto(body, k) ==
    IF k = 0 THEN BytecodeChunk_new
    ELSE compile_statement(compiled_upto(body, k - 1), body[k], k = Len(body))

RECURSIVE spans(_, _)
RECURSIVE spans_in_turn(_, _, _)

\* The spans of the expressions es[i..], compiled one after the other.
spans_in_turn(chunk, es, i) ==
    IF i > Len(es) THEN {}
    ELSE spans(chunk, es[i]) \cup spans_in_turn(compile_expression(chunk, es[i]), es, i + 1)

\* Where the code of e and of each expression in it begins and ends (function
\* bodies apart), e being compiled onto chunk.
spans(chunk, e) ==
    {<<Len(chunk.code), Len(compile_expression(chunk, e).code)>>} \cup
    CASE e.k \in {"Literal", "Identifier", "Function"} -> {}
      [] e.k = "Binary" -> spans_in_turn(chunk, <<e.left, e.right>>, 1)
      [] e.k = "Unary" -> spans(chunk, e.arg)
      [] e.k = "Assignment" ->
            IF e.left.k = "MemberAccess"
            THEN spans_in_turn(chunk, <<e.left.object, e.left.property, e.right>>, 1)
            ELSE spans(chunk, e.right)
      [] e.k = "ArrayLiteral" ->
            UNION {spans(compile_elements(emit(chunk, OpcodeIdx("NewArray", 0)),
                                          SubSeq(e.elements, 1, n - 1), 1),
                         e.elements[n]) : n \in DOMAIN e.elements}
      [] e.k = "ObjectLiteral" ->
            UNION {spans(compile_properties(emit(chunk, Opcode("NewObject")),
                                            SubSeq(e.properties, 1, n - 1), 1),
                         e.properties[n][2]) : n \in DOMAIN e.properties}
      [] e.k = "MemberAccess" -> spans_in_turn(chunk, <<e.object, e.property>>, 1)
      [] e.k = "Call" -> spans_in_turn(chunk, <<e.callee>> \o e.args, 1)

\* The expressions compiled for the k-th statement of body.
expressions_of(statement) ==
    CASE statement.k = "Expression" -> <<statement.expr>>
      [] statement.k = "VariableDeclaration" -> statement.init
      [] statement.k = "Return" -> statement.arg
      [] statement.k = "FunctionDeclaration" -> <<>>

\* The spans of the expressions of body.
expression_spans(b) ==
    UNION {spans_in_turn(compiled_upto(b, k - 1), expressions_of(b[k]), 1) : k \in DOMAIN b}

\* For each statement of body its span, its kind and whether it is the last.
statement_spans(b) ==
    {<<Len(compiled_upto(b, k - 1).code), Len(compiled_upto(b, k).code), b[k].k, k = Len(b)>> :
       k \in DOMAIN b}

\* The activation f has fetched, or is about to fetch, at position p.
reached(f, p) == p < frames[f].pc \/ (f = Len(frames) /\ p = frames[f].pc)

\* The depth of the stack when the activation f stood at position p.
depth_at(f, p) == IF p < frames[f].pc THEN frames[f].seen[p + 1] ELSE Len(stack)

\* The values an instruction takes or reads from the stack.
needs(instruction) ==
    CASE instruction.op \in {"LoadConst", "LoadVar", "NewArray", "NewObject", "CreateFunction"} -> 0
      [] instruction.op \in {"StoreVar", "Pop", "Return"} -> 1
      [] instruction.op \in {"Add", "And", "Or", "GetProperty"} -> 2
      [] instruction.op \in {"SetProperty", "ArrayPush", "ObjectSetProperty"} -> 3
      [] instruction.op = "CallFunction" -> instruction.idx + 1

\* What the claim says a statement of that kind adds to the stack.
gain_claimed(kind, is_last) == IF is_last /\ kind = "Expression" THEN 1 ELSE 0

\* What a statement adds to the stack: the last one leaves the program's
\* value when it is an expression or a variable declaration.
gain(kind, is_last) ==
    IF is_last /\ kind \in {"Expression", "VariableDeclaration"} THEN 1 ELSE 0

\* The claim, a statement adding adds(kind, is_last) values.
Discipline(adds(_, _)) ==
    Compiled =>
        /\ \A f \in DOMAIN frames :
               /\ bodies_of(f) # {}
               /\ \A b \in bodies_of(f) :
                      /\ \A sp \in expression_spans(b) :
                             reached(f, sp[2]) => depth_at(f, sp[2]) = depth_at(f, sp[1]) + 1
                      /\ \A st \in statement_spans(b) :
                             reached(f, st[2]) =>
                                 depth_at(f, st[2]) = depth_at(f, st[1]) + adds(st[3], st[4])
        /\ (status = "running" /\ Top.pc < Len(Top.chunk.code)) =>
               Len(stack) - depth_at(Len(frames), 0) >= needs(Top.chunk.code[Top.pc + 1])
        /\ result # Err("InternalError") \/ compile(Sessions[session][input].body).err # ""

C29_StackDiscipline == Discipline(gain_claimed)

(***************************************************************************)
(* C29, amended.  The same, except that a variable declaration that is the *)
(* last statement of its program or function body leaves one more value,   *)
(* the undefined the compiler loads after it, as a last expression         *)
(* statement leaves its value.                                             *)
(***************************************************************************)
C29_StackDisciplineAmended == Discipline(gain)

\* A program that ends in a variable declaration has run to its end: the
\* declaration found the stack as the program did and leaves the undefined
\* the compiler loads after it.
C29_Witness ==
    /\ Compiled
    /\ status = "running"
    /\ Len(frames) = 1
    /\ Top.pc = Len(Top.chunk.code)
    /\ \E b \in bodies_of(1) :
           /\ b[Len(b)].k = "VariableDeclaration"
           /\ \E st \in statement_spans(b) :
                  st[4] /\ Len(stack) = depth_at(1, st[1]) + 1
    /\ stack[Len(stack)] = Undefined

(***************************************************************************)
(* C30.  In every reachable state, following the outer links from any      *)
(* environment, the current one or one captured by a Function value,       *)
(* reaches the engine's global environment in finitely many steps without  *)
(* visiting an environment twice: the chains have no cycle, so that        *)
(* Environment::get and Environment::set terminate.                        *)
(***************************************************************************)
RECURSIVE walk(_, _, _)
\* The environments met from e on by following outer at most n times.
walk(E, e, n) ==
    IF n = 0 \/ E[e].outer = 0 THEN <<e>> ELSE <<e>> \o walk(E, E[e].outer, n - 1)

\* From e the links end at the global environment, no environment met twice.
Rooted(e) ==
    LET path == walk(envs, e, Len(envs))
    IN  /\ \A n \in DOMAIN path : path[n] \in DOMAIN envs
        /\ \A m, n \in DOMAIN path : path[m] = path[n] => m = n
        /\ path[Len(path)] = GlobalEnv
        /\ envs[GlobalEnv].outer = 0

\* The environments captured by the Function values among vs.
captured_by(vs) == {v.env : v \in {w \in vs : w.t = "Function" /\ w.env # 0}}

\* The values on the operand stacks and in the bindings of the environments.
LiveValues ==
    {stack[n] : n \in DOMAIN stack}
        \cup UNION {{frames[f].old_stack[n] : n \in DOMAIN frames[f].old_stack} :
                       f \in DOMAIN frames}
        \cup UNION {{envs[e].bindings[x] : x \in DOMAIN envs[e].bindings} : e \in DOMAIN envs}

C30_ChainsAcyclic ==
    /\ Rooted(env)
    /\ \A e \in DOMAIN envs : Rooted(e)
    /\ \A e \in captured_by(LiveValues) : e \in DOMAIN envs /\ Rooted(e)

\* A closure bound in a callee's environment captures that environment, and
\* a call of it runs in an environment three links away from no outer one.
C30_Witness ==
    /\ Len(walk(envs, env, Len(envs))) >= 3
    /\ \E e \in captured_by(LiveValues) : e # GlobalEnv /\ Rooted(e)
    /\ Rooted(env)

(***************************************************************************)
(* C31.  When scan, parse or compile fails, eval returns that error        *)
(* without executing any instruction of the source: no binding and no      *)
(* object of the engine is changed by that eval, even when the statements  *)
(* before the offending construct are valid and have side effects.         *)
(***************************************************************************)
\* What a stage before execute answers to the input inp ("" when it passes).
refusal(inp) ==
    CASE inp.kind = "text" ->
            IF tokenize(inp.source).r = "err" THEN tokenize(inp.source).category ELSE ""
      [] inp.kind = "source" -> compile(inp.body).err
      [] OTHER -> ""

C31_RejectedRunsNothing ==
    [][\A i \in DOMAIN Sessions[session] :
          (status = "idle" /\ nevals' = nevals + 1 /\ input' = i
              /\ refusal(Sessions[session][i]) # "") =>
              /\ status' = "idle"
              /\ result' = Err(refusal(Sessions[session][i]))
              /\ frames' = <<>>
              /\ UNCHANGED <<stack, env, envs, objs>>]_vars

\* After `n = 2; o.a = 1; delete o.a` was refused, n is still 1 and o has no
\* property a.
C31_Witness ==
    /\ session = 12
    /\ input = 2
    /\ nevals = 2
    /\ status = "idle"
    /\ result = Err("InternalError")
    /\ Environment_get(envs, GlobalEnv, "n") = <<Number(1)>>
    /\ \E o \in DOMAIN objs : DOMAIN objs[o].properties = {}

(***************************************************************************)
(* C32.  VM::execute on a chunk with a LoadConst or CreateFunction whose   *)
(* index is outside the constant pool, or with a Jump or JumpIfFalse whose *)
(* target is outside the instruction sequence, returns InternalError: it   *)
(* neither crashes the host nor ends as if it had completed normally.      *)
(***************************************************************************)
\* The instruction about to be dispatched refers outside its chunk.
OutOfRange ==
    /\ status = "running"
    /\ Top.pc < Len(Top.chunk.code)
    /\ \/ /\ Top.chunk.code[Top.pc + 1].op \in {"LoadConst", "CreateFunction"}
          /\ Operand >= Len(Top.chunk.constants)
       \/ /\ Top.chunk.code[Top.pc + 1].op = "Jump"
          /\ Operand >= Len(Top.chunk.code)
       \/ /\ Top.chunk.code[Top.pc + 1].op = "JumpIfFalse"
          /\ Operand >= Len(Top.chunk.code)
          /\ stack # <<>>
          /\ ~to_boolean(stack[Len(stack)])

C32_OutOfRangeIsInternalError ==
    [][OutOfRange => (status' = "idle" /\ result' = Err("InternalError"))]_vars

(***************************************************************************)
(* C33.  Stack underflow is always an error: every opcode that removes a   *)
(* value from the operand stack, Pop included, makes execute return        *)
(* InternalError when the stack is empty at that point; no pop on an empty *)
(* stack is silently ignored.                                              *)
(***************************************************************************)
\* The opcodes whose arms take a value off the stack.
Removing ==
    {"StoreVar", "Pop", "Add", "And", "Or", "GetProperty", "SetProperty", "ArrayPush",
     "ObjectSetProperty", "CallFunction", "JumpIfFalse", "Return"}

\* An instruction that removes a value is about to be dispatched on an empty stack.
Underflow(ops) ==
    /\ status = "running"
    /\ Top.pc < Len(Top.chunk.code)
    /\ Top.chunk.code[Top.pc + 1].op \in ops
    /\ stack = <<>>

C33_UnderflowIsInternalError ==
    [][Underflow(Removing) => (status' = "idle" /\ result' = Err("InternalError"))]_vars

(***************************************************************************)
(* C34.  Logical operators do not skip evaluation: for a && b and a || b   *)
(* the compiler emits a, then b, then the And/Or opcode, so both operands  *)
(* are always evaluated left to right and every side effect and error of b *)
(* occurs whatever the truthiness of a: `false && f()` still calls f, and  *)
(* `true || g()` with g not a function returns TypeError.                  *)
(***************************************************************************)
\* The statements of body that are a logical expression.
logical(body) ==
    {k \in DOMAIN body : /\ body[k].k = "Expression"
                         /\ body[k].expr.k = "Binary"
                         /\ body[k].expr.op \in {"And", "Or"}}

\* The k-th statement of body, a && b or a || b, is compiled to the code of
\* a, the code of b, and the opcode.
OperandsThenOpcode(body, k) ==
    LET c0 == compiled_upto(body, k - 1)
        c1 == compile_expression(c0, body[k].expr.left)
        c2 == compile_expression(c1, body[k].expr.right)
        c3 == compile_expression(c0, body[k].expr)
    IN  /\ Len(c1.code) > Len(c0.code)
        /\ Len(c2.code) > Len(c1.code)
        /\ c3.code = Append(c2.code, Opcode(body[k].expr.op))

bodies_for(chunk) ==
    {b \in SessionBodies : compile(b).err = "" /\ finished(compile(b)) = chunk}

\* The statements of body that are a Return.
returns(body) == {k \in DOMAIN body : body[k].k = "Return"}

\* value is what the claim says a completed call of a function with that
\* body yields, where the body tells it: by the first Return when its
\* argument is a literal or absent, else by the last statement.
Yields(body, value) ==
    IF returns(body) # {}
    THEN LET first == body[CHOOSE k \in returns(body) : \A j \in returns(body) : k <= j]
         IN  /\ first.arg = <<>> => value = Undefined
             /\ (first.arg # <<>> /\ first.arg[1].k = "Literal") => value = first.arg[1].value
    ELSE /\ body = <<>> => value = Undefined
         /\ (body # <<>> /\ body[Len(body)].k \in {"VariableDeclaration", "FunctionDeclaration"})
                => value = Undefined
         /\ (body # <<>> /\ body[Len(body)].k = "Expression"
                /\ body[Len(body)].expr.k = "Literal")
                => value = body[Len(body)].expr.value

C35_CalleeEndings ==
    /\ \A n \in DOMAIN hist :
           \A b \in bodies_for(hist[n][1].chunk) : Yields(b, hist[n][3])
    /\ Compiled =>
           \A f \in DOMAIN frames :
               \A b \in bodies_of(f) :
                   \A st \in statement_spans(b) : st[3] = "Return" => frames[f].pc < st[2]
    /\ (session = 15 /\ Environment_get(envs, GlobalEnv, "t") # <<>>) =>
           Environment_get(envs, GlobalEnv, "t") = <<Number(0)>>

\* The five calls have completed: e, d and g yielded undefined, v its last
\* expression, r the argument of its return, and t is as it was.
C35_Witness ==
    /\ session = 15
    /\ status = "idle"
    /\ nevals = 2
    /\ input = 2
    /\ [n \in DOMAIN hist |-> hist[n][3]]
           = <<Undefined, Number(2), Undefined, Undefined, Number(6)>>
    /\ Environment_get(envs, GlobalEnv, "t") = <<Number(0)>>
    /\ result = Ok(Number(6))

(***************************************************************************)
(* C36.  Declarations never shadow: a var/let/const or function            *)
(* declaration executed in a function body whose name is already bound in  *)
(* some frame of the callee's environment chain overwrites that binding    *)
(* and creates none in the call's own frame; only formal parameters,       *)
(* surplus arguments and names bound nowhere on the chain receive a        *)
(* binding in the call's own frame.                                        *)
(***************************************************************************)
\* The environments on the current chain that bind name, nearest first.
binders(name) ==
    SelectSeq(walk(envs, env, Len(envs)), LAMBDA e : name \in DOMAIN envs[e].bindings)

\* The names bound in a new call frame for params and args.
bound_at_call(params, args) ==
    {IF i <= Len(params) THEN params[i] ELSE arg_name(<<>>, i - 1) : i \in DOMAIN args}

C36_DeclarationsNeverShadow ==
    [][/\ \A e \in DOMAIN envs \cap DOMAIN envs' :
              DOMAIN envs'[e].bindings # DOMAIN envs[e].bindings =>
                  /\ AtOp("StoreVar")
                  /\ e = env
                  /\ binders(Name) = <<>>
                  /\ DOMAIN envs'[e].bindings = DOMAIN envs[e].bindings \cup {Name}
       /\ (AtOp("StoreVar") /\ stack # <<>> /\ binders(Name) # <<>>) =>
              envs' = [envs EXCEPT ![binders(Name)[1]].bindings[Name] = stack[Len(stack)]]
       /\ Len(envs') > Len(envs) =>
              /\ AtOp("CallFunction")
              /\ Len(envs') = Len(envs) + 1
              /\ DOMAIN envs'[Len(envs')].bindings
                     = bound_at_call(frames'[Len(frames')].func.params,
                                     frames'[Len(frames')].args)]_vars

\* outer(0) has returned: inner's let g and let q wrote the global g and
\* outer's q, its function h replaced the global h, and its own frame holds
\* its parameters, the surplus argument and w only.
C36_Witness ==
    /\ session = 16
    /\ input = 2
    /\ status = "idle"
    /\ result = Ok(Undefined)
    /\ Environment_get(envs, GlobalEnv, "g") = <<Number(3)>>
    /\ DOMAIN envs[GlobalEnv].bindings = {"g", "h", "outer"}
    /\ \E e \in DOMAIN envs :
           /\ DOMAIN envs[e].bindings = {"p", "q", "inner"}
           /\ envs[e].bindings["q"] = Number(4)
    /\ \E e \in DOMAIN envs : DOMAIN envs[e].bindings = {"p", "s", "arg2", "w"}

(***************************************************************************)
(* C37.  The declaration kind is not recorded at run time: a name declared *)
(* with const can be reassigned and any name can be declared again with    *)
(* var, let or const any number of times; each such statement succeeds and *)
(* the binding then holds the latest value (`const x = 1; x = 2; x` yields *)
(* 2).                                                                     *)
(***************************************************************************)
\* body with the kinds of its declarations left out.
kindless(body) ==
    [k \in DOMAIN body |->
        IF body[k].k = "VariableDeclaration"
        THEN VariableDeclaration(body[k].name, body[k].init)
        ELSE body[k]]

C37_KindNotRecorded ==
    [][/\ (AtOp("StoreVar") /\ stack # <<>>) =>
              /\ status' = "running"
              /\ Environment_get(envs', env, Name) = <<stack[Len(stack)]>>
       /\ (status = "idle" /\ status' = "running" /\ Sessions[session][input'].kind = "source") =>
              frames'[1].chunk = finished(compile(kindless(Sessions[session][input'].body)))
       /\ (session = 17 /\ status = "running" /\ status' = "idle") =>
              result' = Ok(Number(IF input = 1 THEN 2 ELSE 6))]_vars

\* `const x = 1; x = 2; x` has returned 2, and x is bound to 2.
C37_Witness ==
    /\ session = 17
    /\ input = 1
    /\ status = "idle"
    /\ result = Ok(Number(2))
    /\ Environment_get(envs, GlobalEnv, "x") = <<Number(2)>>

(***************************************************************************)
(* C38.  The compiler never emits Jump or JumpIfFalse, so within one       *)
(* activation of execute on a compiled chunk the program counter strictly  *)
(* increases and each instruction is dispatched at most once; every eval   *)
(* therefore terminates unless it performs an unbounded chain of nested    *)
(* calls, and an eval runs on to a value or an error.                      *)
(***************************************************************************)
RECURSIVE JumpFree(_)
\* Neither chunk nor the chunk of any function constant in it has a jump.
JumpFree(chunk) ==
    /\ \A n \in DOMAIN chunk.code : chunk.code[n].op \notin {"Jump", "JumpIfFalse"}
    /\ \A n \in DOMAIN chunk.constants :
           chunk.constants[n].t = "Function" => JumpFree(chunk.constants[n].chunk)

\* The engine is in an eval, or was last in one.
InEval == input # 0 /\ Sessions[session][input].kind \in {"source", "text"}

C38_CompiledCodeRunsForward ==
    /\ [](Compiled => \A f \in DOMAIN frames : /\ JumpFree(frames[f].chunk)
                                                /\ frames[f].pc <= Len(frames[f].chunk.code)
                                                /\ Len(frames[f].seen) = frames[f].pc)
    /\ [][(Compiled /\ status = "running" /\ status' = "running") =>
              /\ \A f \in DOMAIN frames \cap DOMAIN frames' :
                     /\ frames'[f].chunk = frames[f].chunk
                     /\ frames'[f].pc >= frames[f].pc
              /\ Len(frames') >= Len(frames) =>
                     frames'[Len(frames)].pc = frames[Len(frames)].pc + 1]_vars
    /\ (InEval /\ status = "running") ~> (status = "idle" /\ result.kind \in {"ok", "err"})

\* A compiled program of five instructions or more is at its end, each of
\* its instructions dispatched once.
C38_Witness ==
    /\ Compiled
    /\ status = "running"
    /\ Len(frames) = 1
    /\ Top.pc = Len(Top.chunk.code)
    /\ Len(Top.seen) = Top.pc
    /\ Top.pc >= 5
    /\ hist = <<>>

(***************************************************************************)
(* C39.  Shifts mask the right operand to 5 bits: for LeftShift,           *)
(* RightShift and UnsignedRightShift and all integer operands a and b, the *)
(* result of shifting a by b equals the result of shifting a by (b mod     *)
(* 32), with b mod 32 taken in 0..31, for negative b as well.              *)
(***************************************************************************)
\* What the opcode op pushes for a and b.
shifted(op, a, b) ==
    CASE op = "LeftShift" -> left_shift(a, b)
      [] op = "RightShift" -> right_shift(a, b)
      [] op = "UnsignedRightShift" -> unsigned_right_shift(a, b)

C39_ShiftCountMasked ==
    \A n \in DOMAIN log :
        log[n].op \in {"LeftShift", "RightShift", "UnsignedRightShift"} =>
            log[n].value = shifted(log[n].op, log[n].a, Number(log[n].b.n % 32))

=============================================================================
